---- MODULE Spec2Model ----
(***************************************************************************)
(* A model of the COMP5339 ingestion pipeline: the connection pool         *)
(* manager of database_utils.py, the schema reconciliation and batch       *)
(* loading of the save_* functions, the ABS column naming of               *)
(* data_cleaner.py, and the per-partition workers of data_processor.py,    *)
(* the geocoder, the numeric cleaning and type detection, and the pool     *)
(* singleton under concurrent calls.                                       *)
(*                                                                         *)
(* Each subsystem has its own specification (SpecPool, SpecLoad,           *)
(* SpecSchema, SpecAbs, SpecPart, SpecWork, SpecGeo, SpecNames, SpecNum,   *)
(* SpecDetect, SpecCer, SpecSingleton, SpecBatch, SpecRows, SpecThreads).  *)
(* The variables of the other subsystems stay at their initial value       *)
(* under a given specification.                                            *)
(***************************************************************************)
EXTENDS Integers, Sequences, FiniteSets, TLC

(***************************************************************************)
(* Bounds of the model and program constants.                              *)
(***************************************************************************)
NCallers == 2        \* threads that call get_db_connection / return_db_connection
MaxHandles == 3      \* connection objects ever created
MaxPools == 2        \* ThreadedConnectionPool objects ever constructed
Maxconn == 2         \* maxconn of the pool (scaled down)
Minconn == 1         \* minconn, the default of get_connection_pool
NWorkers == 3        \* worker threads loading fragments into one table
NChunks == 2         \* chunks (and rows) of one fragment
NTasks == 2          \* partitions of one parallel job
NGeocoders == 2      \* Geocoder instances (one per row, each on a worker thread)
MaxQueries == 3      \* longest fallback query list of a row
DailyLimit == 1      \* daily_limit of the quota manager (scaled down)
MaxDays == 2         \* calendar days a run can span
MaxHeaders == 3      \* raw headers in one list

VARIABLES
    \* ---- connection manager (database_utils.py lines 26-181) ----
    connection_pool,     \* _connection_pool: 0 is None, n > 0 the n-th pool object
    pool_idle,           \* the pool's idle list (psycopg2 _pool), a sequence of handles
    pool_used,           \* the pool's checked-out handles (psycopg2 _used)
    connState,           \* handle -> "none" | "open" | "broken" | "closed"
    active_connections,  \* _active_connections: the tracked set
    callerPc,            \* caller -> "idle" | "track" | "holding" | "put"
    callerConn,          \* caller -> the handle it works on (0: none)
    callerLog,           \* caller -> what its running get_db_connection did so far
    poolsMade,           \* number of pool objects constructed so far
    shutdown,            \* close_connection_pool has run
    last,                \* the API call completed by the latest step, with its outcome
    \* ---- fragment loading against the database (save_* functions) ----
    dataset,             \* "nger" | "cer" | "abs": which save function the workers run
    tblCols,             \* committed columns of the target table
    nger_schema_migrated,\* _nger_schema_migrated
    wk,                  \* worker -> its position, transaction and result
    tblRows,             \* worker -> committed rows of that worker's fragment
    fault,               \* an injected failure (bad chunk, lost connection) happened
    \* ---- schema of the database over a sequence of operations ----
    tables,              \* the tables that exist
    columns,             \* table -> set of <<column, type>>
    everHad,             \* table -> every <<column, type>> the table ever had
    opLast,              \* the latest operation, its result and the DDL it issued
    opPrev,              \* the operation before it
    \* ---- one ABS block: its table at creation and at insertion ----
    absBlock,            \* the headers of the block's columns
    absPhase,            \* "new" | "created" | "inserted"
    absTable,            \* the physical columns of the block's table
    absCreated,          \* position -> the physical column created for it
    absInserted,         \* position -> the column insertion writes to
    absAdded,            \* the columns the insertion added to the table
    \* ---- partitions of a parallel job and their result records ----
    partKind,            \* "nger" (fetch_nger_data) | "abs" (run_threading_tasks)
    taskPc,              \* partition -> its position
    taskConn,            \* partition -> it holds a connection
    taskRet,             \* ABS partition -> the record its function returned
    results,             \* results_queue / results: the records in order
    taken,               \* records the NGER result loop has taken off the queue
    success_count,       \* success_count of fetch_nger_data
    fetchReturn,         \* "none" | "True" | "False": what fetch_nger_data returned
    \* ---- geocoding (geocoding.py) ----
    today,               \* datetime.now().date() as a day number
    persistent,          \* _global_cache.cache: cache key -> entry
    geocoder,            \* Geocoder instance -> its caches, quota and the row it works on
    requestsOn,          \* day -> external requests sent on that day
    requestLog,          \* the external requests sent, with the cache entry at that time
    \* ---- header normalisation applied to a list of raw headers ----
    rawHeaders,          \* the raw headers, in order
    namePc,              \* "input" | "named" | "mapped"
    normalizedNames,     \* position -> normalize_db_column_name of the header
    mappedNames,         \* normalize_column_mapping of the list
    \* ---- numeric cleaning applied to one cell value ----
    numValue,            \* the cell value, a string
    numTarget,           \* target_type
    numResult,           \* what clean_numeric_value did with it
    \* ---- type detection applied to one column of a frame ----
    detColumn,           \* the column top down, as runs of equal values
    detResult,           \* "pending" or the type detect_numeric_columns gave it
    \* ---- one CER fragment of one row through save_cer_data ----
    cerType,             \* table_type
    cerHeaders,          \* df.columns, the raw headers
    cerRow,              \* the cells of the row, by position
    cerDb,               \* the database: tables, columns and the DDL sent
    cerPc,               \* "frame" | "saved"
    cerSent,             \* the tuple handed to execute_values, with its columns
    \* ---- threads inside get_connection_pool ----
    pool_lock,           \* _pool_lock: the thread that holds it (0: free)
    gpPc,                \* thread -> "idle" | "lock" | "locked" | "return"
    gpRet,               \* thread -> what its latest call returned
    \* ---- one call of batch_insert ----
    biData,              \* len(data): the rows are numbered 1..len(data)
    biBatchSize,         \* batch_size
    biI,                 \* the loop variable i
    biChunks,            \* the chunks handed to execute_values, as <<first, last>>
    biStatements,        \* the INSERT statements execute_values sent, as <<first, last>>
    biPc,                \* "off" | "loop" | "done" | "raised"
    \* ---- the rows one save function builds from a frame ----
    rwKind,              \* "nger" | "cer" | "abs": which function
    rwColumns,           \* df.columns
    rwValid,             \* the columns whose cell of the row is a valid value
    rwOption,            \* table_type of save_cer_data, geo_level of the ABS insert
    rwTuple,             \* the row tuple: where each element was taken from
    rwInsert,            \* the column list of the INSERT statement
    rwPc,                \* "off" | "frame" | "built" | "raised"
    \* ---- one call of add_geocoding_to_cer_data / add_geocoding_to_nger_data ----
    gtIndex,             \* df.index: the labels of the rows, in row order
    gtWorkers,           \* max_workers
    gtTask,              \* label -> "queued" | "running" | "finished" | "collected"
    gtOutcome,           \* label -> what the thread function returned
    gtResults,           \* results, in the order as_completed yielded them
    gtFrame,             \* label -> the geocode columns of the row
    gtPc                 \* "off" | "threads" | "update" | "returned"

poolVars == <<connection_pool, pool_idle, pool_used, connState, active_connections,
              callerPc, callerConn, callerLog, poolsMade, shutdown, last>>

loadVars == <<dataset, tblCols, nger_schema_migrated, wk, tblRows, fault>>

schemaVars == <<tables, columns, everHad, opLast, opPrev>>

absVars == <<absBlock, absPhase, absTable, absCreated, absInserted, absAdded>>

partVars == <<partKind, taskPc, taskConn, taskRet, results, taken, success_count,
              fetchReturn>>

geoVars == <<today, persistent, geocoder, requestsOn, requestLog>>

\* The parts of the program added to the model after the first five.
nameVars == <<rawHeaders, namePc, normalizedNames, mappedNames>>

numVars == <<numValue, numTarget, numResult>>

otherVars == <<geoVars, nameVars, numVars>>

detectVars == <<detColumn, detResult>>

\* The parts added after those.
cerVars == <<cerType, cerHeaders, cerRow, cerDb, cerPc, cerSent>>

singletonVars == <<pool_lock, gpPc, gpRet>>

batchVars == <<biData, biBatchSize, biI, biChunks, biStatements, biPc>>

rowVars == <<rwKind, rwColumns, rwValid, rwOption, rwTuple, rwInsert, rwPc>>

threadVars == <<gtIndex, gtWorkers, gtTask, gtOutcome, gtResults, gtFrame, gtPc>>

lastVars == <<batchVars, rowVars, threadVars>>

laterVars == <<detectVars, cerVars, singletonVars, lastVars>>

\* What a step of one of the last parts leaves alone.
exceptLast == <<poolVars, loadVars, schemaVars, absVars, partVars, otherVars,
                detectVars, cerVars, singletonVars>>

vars == <<poolVars, loadVars, schemaVars, absVars, partVars, otherVars, laterVars>>

(***************************************************************************)
(* Connection manager.                                                     *)
(***************************************************************************)
Callers == 1..NCallers
Handles == 1..MaxHandles
None == 0

NoLog == [probes |-> <<>>, attempts |-> 0, discarded |-> {}]
NoCall == [op |-> "none"]

\* The part of the state one pool operation reads and writes.
World == [pool |-> connection_pool, idle |-> pool_idle, used |-> pool_used,
          conn |-> connState, made |-> poolsMade]

FreeHandles(conn) == {h \in Handles : conn[h] = "none"}
Fresh(conn) == CHOOSE h \in FreeHandles(conn) : \A g \in FreeHandles(conn) : h <= g

\* ThreadedConnectionPool(minconn, maxconn): minconn connections are opened
\* into the idle list.
RECURSIVE OpenIdle(_, _)
OpenIdle(W, n) ==
    IF n = 0 THEN W
    ELSE LET h == Fresh(W.conn)
         IN  OpenIdle([W EXCEPT !.conn[h] = "open", !.idle = Append(@, h)], n - 1)

\* get_connection_pool: the singleton is built when _connection_pool is None.
\* how = "fail": the constructor raises; "nopostgis": CREATE EXTENSION raises
\* after getconn, so the putconn of line 74 is skipped and the handle stays
\* checked out; "ok": the handle is put back.
NewPool(W, how) ==
    IF how = "fail" \/ W.made >= MaxPools
       \/ Cardinality(FreeHandles(W.conn)) < Minconn
    THEN W
    ELSE LET P == OpenIdle([W EXCEPT !.pool = W.made + 1, !.made = W.made + 1,
                                     !.idle = <<>>, !.used = {}], Minconn)
             c == P.idle[Len(P.idle)]
         IN  IF how = "nopostgis"
             THEN [P EXCEPT !.idle = SubSeq(@, 1, Len(@) - 1), !.used = @ \cup {c}]
             ELSE P

get_connection_pool(W, how) ==
    IF W.pool # None THEN W ELSE NewPool(W, how)

\* pool.getconn(): the result handle is None when getconn raises.
getconn(W, connectOK) ==
    IF Len(W.idle) > 0
    THEN LET c == W.idle[Len(W.idle)]
         IN  [w |-> [W EXCEPT !.idle = SubSeq(@, 1, Len(@) - 1), !.used = @ \cup {c}],
              c |-> c]
    ELSE IF Cardinality(W.used) = Maxconn \/ ~connectOK \/ FreeHandles(W.conn) = {}
         THEN [w |-> W, c |-> None]
         ELSE LET c == Fresh(W.conn)
              IN  [w |-> [W EXCEPT !.conn[c] = "open", !.used = @ \cup {c}], c |-> c]

\* pool.putconn(conn, close): raises for a handle the pool did not hand out.
putconn(W, c, close) ==
    IF c \notin W.used THEN [w |-> W, raised |-> TRUE]
    ELSE LET keep == Len(W.idle) < Minconn /\ ~close
             W1 == IF keep
                   THEN IF W.conn[c] = "open" THEN [W EXCEPT !.idle = Append(@, c)]
                        ELSE [W EXCEPT !.conn[c] = "closed"]
                   ELSE [W EXCEPT !.conn[c] = "closed"]
         IN  [w |-> [W1 EXCEPT !.used = @ \ {c}], raised |-> FALSE]

\* test_connection: SELECT 1 succeeds on an open, live connection only.
test_connection(conn, c) == conn[c] = "open"

track_connection_noop(S, c) == S
track_connection(S, c) == S \cup {c}

\* safe_close_connection: conn.close(), errors swallowed.
safe_close_connection_noop(conn, c) == conn
safe_close_connection(conn, c) == [conn EXCEPT ![c] = "closed"]

SetWorld(W) ==
    /\ connection_pool' = W.pool
    /\ pool_idle' = W.idle
    /\ pool_used' = W.used
    /\ connState' = W.conn
    /\ poolsMade' = W.made

\* The connection of the handle just taken is lost before the probe is
\* sent (lost = TRUE), as ConnectionLost can do to any open connection.
Dropped(g, lost) ==
    IF lost /\ g.c # None /\ g.w.conn[g.c] = "open"
    THEN [g EXCEPT !.w.conn[g.c] = "broken"]
    ELSE g

\* get_db_connection, lines 99-125 up to the probe that decides the result.
\* With a passing probe the caller goes on to track_connection (GetTrack).
GetAcquire(t) ==
    /\ callerPc[t] = "idle"
    /\ \E how \in {"ok", "fail", "nopostgis"}, ok1 \in BOOLEAN, ok2 \in BOOLEAN,
          lost1 \in BOOLEAN, lost2 \in BOOLEAN :
        LET W1 == get_connection_pool(World, how)
            g1 == Dropped(getconn(W1, ok1), lost1)
            p1 == test_connection(g1.w.conn, g1.c)
            d1 == putconn(g1.w, g1.c, TRUE)
            g2 == Dropped(getconn(d1.w, ok2), lost2)
            p2 == test_connection(g2.w.conn, g2.c)
        IN  IF W1.pool = None
            THEN \* line 100: no pool
                 /\ SetWorld(W1)
                 /\ last' = [op |-> "get", caller |-> t, ret |-> None, log |-> NoLog]
                 /\ UNCHANGED <<callerPc, callerConn, callerLog>>
            ELSE IF g1.c = None
            THEN \* getconn raised: line 126
                 /\ SetWorld(g1.w)
                 /\ last' = [op |-> "get", caller |-> t, ret |-> None,
                             log |-> [NoLog EXCEPT !.attempts = 1]]
                 /\ UNCHANGED <<callerPc, callerConn, callerLog>>
            ELSE IF p1
            THEN /\ SetWorld(g1.w)
                 /\ callerPc' = [callerPc EXCEPT ![t] = "track"]
                 /\ callerConn' = [callerConn EXCEPT ![t] = g1.c]
                 /\ callerLog' = [callerLog EXCEPT ![t] =
                        [probes |-> <<[h |-> g1.c, ok |-> TRUE]>>, attempts |-> 1,
                         discarded |-> {}]]
                 /\ last' = NoCall
            ELSE LET lg == [probes |-> <<[h |-> g1.c, ok |-> FALSE]>>, attempts |-> 2,
                            discarded |-> {g1.c}]
                 IN  IF g2.c = None
                     THEN /\ SetWorld(g2.w)
                          /\ last' = [op |-> "get", caller |-> t, ret |-> None, log |-> lg]
                          /\ UNCHANGED <<callerPc, callerConn, callerLog>>
                     ELSE IF p2
                     THEN /\ SetWorld(g2.w)
                          /\ callerPc' = [callerPc EXCEPT ![t] = "track"]
                          /\ callerConn' = [callerConn EXCEPT ![t] = g2.c]
                          /\ callerLog' = [callerLog EXCEPT ![t] =
                                 [lg EXCEPT !.probes = Append(@, [h |-> g2.c, ok |-> TRUE])]]
                          /\ last' = NoCall
                     ELSE \* line 125: the second handle stays checked out
                          /\ SetWorld(g2.w)
                          /\ last' = [op |-> "get", caller |-> t, ret |-> None,
                                      log |-> [lg EXCEPT !.probes =
                                                  Append(@, [h |-> g2.c, ok |-> FALSE])]]
                          /\ UNCHANGED <<callerPc, callerConn, callerLog>>
    /\ UNCHANGED <<active_connections, shutdown>>

\* get_db_connection, lines 110-111 and 122-123: track_connection, return conn.
GetTrack(t) ==
    /\ callerPc[t] = "track"
    /\ active_connections' = track_connection(active_connections, callerConn[t])
    /\ callerPc' = [callerPc EXCEPT ![t] = "holding"]
    /\ callerLog' = [callerLog EXCEPT ![t] = NoLog]
    /\ last' = [op |-> "get", caller |-> t, ret |-> callerConn[t], log |-> callerLog[t]]
    /\ UNCHANGED <<connection_pool, pool_idle, pool_used, connState, callerConn,
                   poolsMade, shutdown>>

\* return_db_connection that leaves the handle in the tracked set
RetUntrackKeepsTracked(t) ==
    /\ callerPc[t] = "holding"
    /\ LET c == callerConn[t]
       IN  IF c \notin active_connections
           THEN /\ connState' = safe_close_connection(connState, c)
                /\ callerPc' = [callerPc EXCEPT ![t] = "idle"]
                /\ callerConn' = [callerConn EXCEPT ![t] = None]
                /\ last' = [op |-> "ret", caller |-> t, conn |-> c, tracked |-> FALSE,
                            pool |-> connection_pool # None,
                            probe |-> test_connection(connState, c),
                            put |-> FALSE, raised |-> FALSE]
                /\ UNCHANGED active_connections
           ELSE /\ active_connections' = active_connections
                /\ callerPc' = [callerPc EXCEPT ![t] = "put"]
                /\ last' = NoCall
                /\ UNCHANGED <<connState, callerConn>>
    /\ UNCHANGED <<connection_pool, pool_idle, pool_used, callerLog, poolsMade, shutdown>>

\* return_db_connection, lines 132-142: the tracked-set check under the lock.
RetUntrack(t) ==
    /\ callerPc[t] = "holding"
    /\ LET c == callerConn[t]
       IN  IF c \notin active_connections
           THEN /\ connState' = safe_close_connection(connState, c)
                /\ callerPc' = [callerPc EXCEPT ![t] = "idle"]
                /\ callerConn' = [callerConn EXCEPT ![t] = None]
                /\ last' = [op |-> "ret", caller |-> t, conn |-> c, tracked |-> FALSE,
                            pool |-> connection_pool # None,
                            probe |-> test_connection(connState, c),
                            put |-> FALSE, raised |-> FALSE]
                /\ UNCHANGED active_connections
           ELSE /\ active_connections' = active_connections \ {c}
                /\ callerPc' = [callerPc EXCEPT ![t] = "put"]
                /\ last' = NoCall
                /\ UNCHANGED <<connState, callerConn>>
    /\ UNCHANGED <<connection_pool, pool_idle, pool_used, callerLog, poolsMade, shutdown>>

\* return_db_connection, lines 144-160: pool check, probe, putconn.
RetPut(t) ==
    /\ callerPc[t] = "put"
    /\ LET c == callerConn[t]
           probe == test_connection(connState, c)
           r == putconn(World, c, FALSE)
           rec == [op |-> "ret", caller |-> t, conn |-> c, tracked |-> TRUE,
                   pool |-> connection_pool # None, probe |-> probe,
                   put |-> FALSE, raised |-> FALSE]
       IN  IF connection_pool = None \/ ~probe
           THEN /\ connState' = safe_close_connection(connState, c)
                /\ last' = rec
                /\ UNCHANGED <<pool_idle, pool_used>>
           ELSE IF r.raised
           THEN \* line 158: the except branch closes the handle
                /\ connState' = safe_close_connection(connState, c)
                /\ last' = rec
                /\ UNCHANGED <<pool_idle, pool_used>>
           ELSE /\ connState' = r.w.conn
                /\ pool_idle' = r.w.idle
                /\ pool_used' = r.w.used
                /\ last' = [rec EXCEPT !.put = TRUE]
    /\ callerPc' = [callerPc EXCEPT ![t] = "idle"]
    /\ callerConn' = [callerConn EXCEPT ![t] = None]
    /\ UNCHANGED <<connection_pool, active_connections, callerLog, poolsMade, shutdown>>

\* close_connection_pool: closeall, forget the pool, clear the tracking.
close_connection_pool ==
    /\ IF connection_pool # None
       THEN /\ connState' = [h \in Handles |->
                  IF h \in pool_used \/ (\E i \in 1..Len(pool_idle) : pool_idle[i] = h)
                  THEN "closed" ELSE connState[h]]
            /\ connection_pool' = None
            /\ pool_idle' = <<>>
            /\ pool_used' = {}
            /\ active_connections' = {}
       ELSE UNCHANGED <<connState, connection_pool, pool_idle, pool_used,
                        active_connections>>
    /\ shutdown' = TRUE
    /\ last' = [op |-> "close"]
    /\ UNCHANGED <<callerPc, callerConn, callerLog, poolsMade>>

\* The server or the network drops an open connection: later probes fail.
ConnectionLost(h) ==
    /\ connState[h] = "open"
    /\ connState' = [connState EXCEPT ![h] = "broken"]
    /\ UNCHANGED <<connection_pool, pool_idle, pool_used, active_connections,
                   callerPc, callerConn, callerLog, poolsMade, shutdown, last>>


(***************************************************************************)
(* Fragment loading: save_nger_data, save_cer_data and                     *)
(* insert_abs_data_cleaned, one SQL statement per step, against a table    *)
(* of a PostgreSQL server.  Every worker has its own connection and its    *)
(* own transaction.  DDL is transactional: an added column is visible to   *)
(* others after the commit; ALTER TABLE takes the ACCESS EXCLUSIVE lock    *)
(* and INSERT / UPDATE the ROW EXCLUSIVE lock, both held to the end of     *)
(* the transaction.  A failed statement aborts the transaction: its work   *)
(* is discarded, its locks are released, and every later statement         *)
(* raises until the rollback; commit on an aborted transaction rolls back  *)
(* without raising.                                                        *)
(***************************************************************************)
Workers == 1..NWorkers

GEOCODE_FIELDS == <<"lat", "lon", "formatted_address", "place_id", "postcode",
                    "bbox_south", "bbox_north", "bbox_west", "bbox_east">>

SeqRange(q) == {q[i] : i \in 1..Len(q)}

\* The table as the single-threaded creation step leaves it:
\* create_nger_table (geocode columns and geom), create_cer_tables (approved
\* table), create_all_abs_tables (the block's data columns only).
LoadTableInit(ds) ==
    CASE ds = "nger" -> SeqRange(GEOCODE_FIELDS) \cup {"geom"}
      [] ds = "cer"  -> (SeqRange(GEOCODE_FIELDS) \cup {"accreditation_code",
                          "power_station_name", "state"})
      [] ds = "abs"  -> {"data_col"}

\* The columns a save makes sure of before inserting, in order.
LoadEnsureList(ds) ==
    CASE ds = "nger" -> GEOCODE_FIELDS
      [] ds = "cer"  -> <<"power_station_name", "installed_capacity_mw">> \o GEOCODE_FIELDS
      [] ds = "abs"  -> <<"code", "label", "year", "data_col", "geographic_level">>

\* fetch_cer_data saves its tables one after the other on one connection.
LoadActive(ds) == IF ds = "cer" THEN {1} ELSE Workers

WorkerInit(on) ==
    [pc |-> IF on THEN "begin" ELSE "off", txn |-> "ok", lost |-> FALSE,
     lock |-> "none", pendCols |-> {}, pendRows |-> 0, idx |-> 1,
     result |-> "none", adds |-> {}, chunkFailed |-> FALSE]

\* A statement of w raises at once: connection gone or transaction aborted.
Fails(w) == wk[w].lost \/ wk[w].txn = "aborted"

Visible(w) == tblCols \cup wk[w].pendCols

CanAccessExclusive(w) == \A v \in Workers \ {w} : wk[v].lock = "none"
CanRowExclusive(w) == \A v \in Workers \ {w} : wk[v].lock # "accessex"

\* The transaction of w after a statement error.
Aborted(r) == [r EXCEPT !.txn = "aborted", !.lock = "none", !.pendCols = {},
                        !.pendRows = 0]

RowLock(l) == IF l = "accessex" THEN l ELSE "rowex"

\* column_exists: the first column from position i on that the worker does
\* not see, 0 when it sees them all.
RECURSIVE FirstMissing(_, _, _)
FirstMissing(list, i, seen) ==
    IF i > Len(list) THEN 0
    ELSE IF list[i] \notin seen THEN i
    ELSE FirstMissing(list, i + 1, seen)

HasGeometry(ds) == ds \in {"nger", "cer"}

AfterInsert(ds) == IF HasGeometry(ds) THEN "geom" ELSE "commit"

SetWk(w, r) == wk' = [wk EXCEPT ![w] = r]

\* save_nger_data lines 594-600: the once-per-process migration.
LoadBegin(w) ==
    /\ wk[w].pc = "begin"
    /\ SetWk(w, [wk[w] EXCEPT !.pc = IF dataset = "nger" /\ ~nger_schema_migrated
                                     THEN "migrate" ELSE "ensure"])
    /\ UNCHANGED <<dataset, tblCols, nger_schema_migrated, tblRows, fault>>

\* migrate_nger_unified_schema: ALTER COLUMN ... TYPE VARCHAR on VARCHAR
\* columns and DROP COLUMN IF EXISTS of a column that is not there; every
\* statement's error is swallowed.
MigrateNgerStep(w) ==
    /\ wk[w].pc = "migrate"
    /\ Fails(w) \/ CanAccessExclusive(w)
    /\ SetWk(w, [wk[w] EXCEPT !.pc = "ensure",
                              !.lock = IF Fails(w) THEN @ ELSE "accessex"])
    /\ nger_schema_migrated' = TRUE
    /\ UNCHANGED <<dataset, tblCols, tblRows, fault>>

\* add_column_if_not_exists, line 210 (and line 1140 of
\* insert_abs_data_cleaned): the column_exists checks up to the first column
\* the worker does not see.
ColumnExistsScan(w) ==
    /\ wk[w].pc = "ensure"
    /\ LET list == LoadEnsureList(dataset)
           i == FirstMissing(list, wk[w].idx, Visible(w))
       IN  IF Fails(w)
           THEN \* the check raises: swallowed per column, or (ABS, line 1169)
                \* for the rest of the loop
                SetWk(w, [wk[w] EXCEPT !.pc = "insert", !.idx = 1])
           ELSE IF i = 0
           THEN SetWk(w, [wk[w] EXCEPT !.pc = "insert", !.idx = 1])
           ELSE SetWk(w, [wk[w] EXCEPT !.pc = "alter", !.idx = i])
    /\ UNCHANGED <<dataset, tblCols, nger_schema_migrated, tblRows, fault>>

\* ALTER TABLE ... ADD COLUMN by w: the worker's record afterwards.  The
\* statement waits for the lock (the caller's guard); it fails when the
\* column exists by then.
AddColumn(w, c) ==
    IF Fails(w) THEN wk[w]
    ELSE IF c \in Visible(w) THEN [Aborted(wk[w]) EXCEPT !.adds = @ \cup {c}]
    ELSE [wk[w] EXCEPT !.lock = "accessex", !.pendCols = @ \cup {c},
                       !.adds = @ \cup {c}]

\* add_column_if_not_exists, lines 211-217: the ALTER; its error is printed
\* and swallowed and the loop goes on.
AddColumnStep(w) ==
    /\ wk[w].pc = "alter"
    /\ Fails(w) \/ CanAccessExclusive(w)
    /\ LET c == LoadEnsureList(dataset)[wk[w].idx]
           r == AddColumn(w, c)
       IN  SetWk(w, [r EXCEPT !.pc = "ensure", !.idx = @ + 1])
    /\ UNCHANGED <<dataset, tblCols, nger_schema_migrated, tblRows, fault>>

\* batch_insert: one chunk by execute_values.  how = "bad": the server
\* rejects the chunk (constraint violation, value out of range).
batch_insert(w) ==
    /\ wk[w].pc = "insert"
    /\ Fails(w) \/ CanRowExclusive(w)
    /\ \E how \in {"ok", "bad"} :
        IF Fails(w)
        THEN /\ SetWk(w, [wk[w] EXCEPT !.pc = "rollback", !.chunkFailed = TRUE])
             /\ UNCHANGED fault
        ELSE IF how = "bad"
        THEN /\ SetWk(w, [Aborted(wk[w]) EXCEPT !.pc = "rollback", !.chunkFailed = TRUE])
             /\ fault' = TRUE
        ELSE /\ SetWk(w, [wk[w] EXCEPT !.lock = RowLock(@), !.pendRows = @ + 1,
                                       !.idx = @ + 1,
                                       !.pc = IF wk[w].idx = NChunks
                                              THEN AfterInsert(dataset) ELSE "insert"])
             /\ UNCHANGED fault
    /\ UNCHANGED <<dataset, tblCols, nger_schema_migrated, tblRows>>

GeomColumn(pc) == IF pc \in {"geom", "geom_alter", "geom_update"} THEN "geom" ELSE "geom_bbox"

\* geometry_column_exists at the head of ensure_geometry_column_and_index and
\* of ensure_area_and_bbox_geometries.  An exception leaves both calls: the
\* save catches it (lines 732, 1086) and goes on to commit.
GeometryCheckStep(w) ==
    /\ wk[w].pc \in {"geom", "bbox"}
    /\ LET c == GeomColumn(wk[w].pc)
           alter == IF wk[w].pc = "geom" THEN "geom_alter" ELSE "bbox_alter"
           update == IF wk[w].pc = "geom" THEN "geom_update" ELSE "bbox_update"
       IN  SetWk(w, [wk[w] EXCEPT !.pc = IF Fails(w) THEN "commit"
                                         ELSE IF c \in Visible(w) THEN update
                                         ELSE alter])
    /\ UNCHANGED <<dataset, tblCols, nger_schema_migrated, tblRows, fault>>

\* ALTER TABLE ... ADD COLUMN geom / geom_bbox (lines 1247, 1282): an error
\* is raised to the save.
AddGeometryColumn(w) ==
    /\ wk[w].pc \in {"geom_alter", "bbox_alter"}
    /\ Fails(w) \/ CanAccessExclusive(w)
    /\ LET r == AddColumn(w, GeomColumn(wk[w].pc))
           ok == ~Fails(w) /\ r.txn = "ok"
           update == IF wk[w].pc = "geom_alter" THEN "geom_update" ELSE "bbox_update"
       IN  SetWk(w, [r EXCEPT !.pc = IF ok THEN update ELSE "commit"])
    /\ UNCHANGED <<dataset, tblCols, nger_schema_migrated, tblRows, fault>>

\* The UPDATE that fills the geometry column, then CREATE INDEX IF NOT EXISTS
\* (its errors are swallowed).
UpdateGeometry(w) ==
    /\ wk[w].pc \in {"geom_update", "bbox_update"}
    /\ Fails(w) \/ CanRowExclusive(w)
    /\ SetWk(w, [wk[w] EXCEPT !.lock = IF Fails(w) THEN @ ELSE RowLock(@),
                              !.pc = IF Fails(w) THEN "commit"
                                     ELSE IF wk[w].pc = "geom_update" THEN "bbox"
                                     ELSE "commit"])
    /\ UNCHANGED <<dataset, tblCols, nger_schema_migrated, tblRows, fault>>

\* Two transactions that each hold a lock on the table and each wait for
\* ACCESS EXCLUSIVE: the server's deadlock detector fails the statement of one.
DeadlockDetected(w) ==
    /\ wk[w].pc \in {"migrate", "alter", "geom_alter", "bbox_alter"}
    /\ ~Fails(w)
    /\ wk[w].lock # "none"
    /\ \E v \in Workers \ {w} :
          /\ wk[v].pc \in {"migrate", "alter", "geom_alter", "bbox_alter"}
          /\ ~Fails(v)
          /\ wk[v].lock # "none"
    /\ LET r == Aborted(wk[w])
       IN  CASE wk[w].pc = "migrate" ->
                   /\ SetWk(w, [r EXCEPT !.pc = "ensure"])
                   /\ nger_schema_migrated' = TRUE
             [] wk[w].pc = "alter" ->
                   /\ SetWk(w, [r EXCEPT !.pc = "ensure", !.idx = @ + 1,
                                         !.adds = @ \cup {LoadEnsureList(dataset)[wk[w].idx]}])
                   /\ UNCHANGED nger_schema_migrated
             [] OTHER ->
                   /\ SetWk(w, [r EXCEPT !.pc = "commit",
                                         !.adds = @ \cup {GeomColumn(wk[w].pc)}])
                   /\ UNCHANGED nger_schema_migrated
    /\ UNCHANGED <<dataset, tblCols, tblRows, fault>>

\* conn.commit() and "return True" (lines 735-737, 1089-1091, 1205-1210).  On
\* an aborted transaction the server answers the COMMIT with a rollback and
\* psycopg2 raises nothing; on a lost connection commit raises and the
\* handler's rollback is next.
Commit(w) ==
    /\ wk[w].pc = "commit"
    /\ IF wk[w].lost
       THEN /\ SetWk(w, [wk[w] EXCEPT !.pc = "rollback"])
            /\ UNCHANGED <<tblCols, tblRows>>
       ELSE /\ SetWk(w, [wk[w] EXCEPT !.pc = "done", !.result = "True", !.txn = "ok",
                                      !.lock = "none", !.pendCols = {}, !.pendRows = 0])
            /\ tblCols' = tblCols \cup wk[w].pendCols
            /\ tblRows' = [tblRows EXCEPT ![w] = @ + wk[w].pendRows]
    /\ UNCHANGED <<dataset, nger_schema_migrated, fault>>

\* The except branch (lines 739-742, 1093-1096, 1212-1215): conn.rollback(),
\* return False.  rollback on a connection that is gone raises
\* InterfaceError out of the handler: the call raises instead of returning.
Rollback(w) ==
    /\ wk[w].pc = "rollback"
    /\ SetWk(w, [wk[w] EXCEPT !.pc = "done",
                              !.result = IF wk[w].lost THEN "raised" ELSE "False",
                              !.txn = "ok", !.lock = "none", !.pendCols = {},
                              !.pendRows = 0])
    /\ UNCHANGED <<dataset, tblCols, nger_schema_migrated, tblRows, fault>>

\* The connection of a running worker is lost (server restart, network):
\* the server discards the open transaction.
WorkerConnectionLost(w) ==
    /\ wk[w].pc \notin {"off", "done"}
    /\ ~wk[w].lost
    /\ SetWk(w, [wk[w] EXCEPT !.lost = TRUE, !.lock = "none", !.pendCols = {},
                              !.pendRows = 0])
    /\ fault' = TRUE
    /\ UNCHANGED <<dataset, tblCols, nger_schema_migrated, tblRows>>

LoadOff ==
    /\ dataset = "off"
    /\ tblCols = {}
    /\ nger_schema_migrated = FALSE
    /\ wk = [w \in Workers |-> WorkerInit(FALSE)]
    /\ tblRows = [w \in Workers |-> 0]
    /\ fault = FALSE

PoolOff ==
    /\ connection_pool = None
    /\ pool_idle = <<>>
    /\ pool_used = {}
    /\ connState = [h \in Handles |-> "none"]
    /\ active_connections = {}
    /\ callerPc = [t \in Callers |-> "idle"]
    /\ callerConn = [t \in Callers |-> None]
    /\ callerLog = [t \in Callers |-> NoLog]
    /\ poolsMade = 0
    /\ shutdown = FALSE
    /\ last = NoCall

LoadInit ==
    /\ dataset \in {"nger", "cer", "abs"}
    /\ tblCols = LoadTableInit(dataset)
    /\ nger_schema_migrated = FALSE
    /\ wk = [w \in Workers |-> WorkerInit(w \in LoadActive(dataset))]
    /\ tblRows = [w \in Workers |-> 0]
    /\ fault = FALSE

NextLoad ==
    \/ \E w \in Workers : LoadBegin(w) /\ UNCHANGED <<poolVars, schemaVars, absVars, partVars, otherVars, laterVars>>
    \/ \E w \in Workers : MigrateNgerStep(w) /\ UNCHANGED <<poolVars, schemaVars, absVars, partVars, otherVars, laterVars>>
    \/ \E w \in Workers : ColumnExistsScan(w) /\ UNCHANGED <<poolVars, schemaVars, absVars, partVars, otherVars, laterVars>>
    \/ \E w \in Workers : AddColumnStep(w) /\ UNCHANGED <<poolVars, schemaVars, absVars, partVars, otherVars, laterVars>>
    \/ \E w \in Workers : batch_insert(w) /\ UNCHANGED <<poolVars, schemaVars, absVars, partVars, otherVars, laterVars>>
    \/ \E w \in Workers : GeometryCheckStep(w) /\ UNCHANGED <<poolVars, schemaVars, absVars, partVars, otherVars, laterVars>>
    \/ \E w \in Workers : AddGeometryColumn(w) /\ UNCHANGED <<poolVars, schemaVars, absVars, partVars, otherVars, laterVars>>
    \/ \E w \in Workers : UpdateGeometry(w) /\ UNCHANGED <<poolVars, schemaVars, absVars, partVars, otherVars, laterVars>>
    \/ \E w \in Workers : DeadlockDetected(w) /\ UNCHANGED <<poolVars, schemaVars, absVars, partVars, otherVars, laterVars>>
    \/ \E w \in Workers : Commit(w) /\ UNCHANGED <<poolVars, schemaVars, absVars, partVars, otherVars, laterVars>>
    \/ \E w \in Workers : Rollback(w) /\ UNCHANGED <<poolVars, schemaVars, absVars, partVars, otherVars, laterVars>>
    \/ \E w \in Workers : WorkerConnectionLost(w) /\ UNCHANGED <<poolVars, schemaVars, absVars, partVars, otherVars, laterVars>>



(***************************************************************************)
(* Schema reconciliation: what a sequence of table-creation and save       *)
(* operations, run one after the other, does to the schema.  Column names  *)
(* here are fixed points of normalize_db_column_name.                      *)
(***************************************************************************)
CerTypes == {"approved_power_stations", "committed_power_stations",
             "probable_power_stations"}

CerTable(ty) ==
    CASE ty = "approved_power_stations" -> "cer_approved_power_stations"
      [] ty = "committed_power_stations" -> "cer_committed_power_stations"
      [] ty = "probable_power_stations" -> "cer_probable_power_stations"

AllTables == {"nger_unified", "abs_table"} \cup {CerTable(ty) : ty \in CerTypes}

NoOp == [op |-> "none", arg |-> "", result |-> FALSE, issued |-> {}]

GeocodeType(c) ==
    IF c \in {"formatted_address", "place_id", "postcode"} THEN "VARCHAR" ELSE "NUMERIC"

Typed(cs, ty) == {<<c, ty>> : c \in cs}

\* column_definitions of create_nger_table_impl
NgerColumnDefinitions ==
    Typed({"year_label", "facility_name", "state", "facility_type", "primary_fuel",
           "reporting_entity", "grid_info", "formatted_address", "place_id",
           "postcode"}, "VARCHAR")
    \cup Typed({"start_year", "stop_year"}, "INTEGER")
    \cup Typed({"electricity_production_gj", "electricity_production_mwh",
                "emission_intensity_tco2e_mwh", "scope1_emissions_tco2e",
                "scope2_emissions_tco2e", "total_emissions_tco2e", "lat", "lon",
                "bbox_south", "bbox_north", "bbox_west", "bbox_east"}, "NUMERIC")
    \cup {<<"grid_connected", "BOOLEAN">>, <<"important_notes", "TEXT">>}

\* column_definitions of create_cer_tables_impl before the per-table removals
CerBaseDefinitions ==
    Typed({"accreditation_code", "power_station_name", "project_name", "state",
           "postcode", "fuel_source", "committed_date", "formatted_address",
           "place_id"}, "VARCHAR")
    \cup Typed({"installed_capacity_mw", "mw_capacity", "lat", "lon", "bbox_south",
                "bbox_north", "bbox_west", "bbox_east"}, "NUMERIC")
    \cup Typed({"accreditation_start_date", "approval_date"}, "DATE")
    \cup Typed({"committed_date_year", "committed_date_month",
                "accreditation_start_date_year", "accreditation_start_date_month",
                "approval_date_year", "approval_date_month"}, "INTEGER")

\* The columns create_cer_tables_impl leaves out of a table, which are also
\* the columns the drop_* function of that table drops.
CerDropped(ty) ==
    CASE ty = "approved_power_stations" ->
            {"project_name", "installed_capacity_mw", "mw_capacity", "committed_date",
             "committed_date_year", "committed_date_month",
             "accreditation_start_date_year", "accreditation_start_date_month",
             "approval_date_year", "approval_date_month", "fuel_source",
             "accreditation_start_date", "approval_date"}
      [] ty = "committed_power_stations" ->
            {"accreditation_code", "power_station_name", "installed_capacity_mw",
             "accreditation_start_date", "approval_date",
             "accreditation_start_date_year", "accreditation_start_date_month",
             "approval_date_year", "approval_date_month"}
      [] ty = "probable_power_stations" ->
            {"accreditation_code", "power_station_name", "installed_capacity_mw",
             "accreditation_start_date", "approval_date",
             "accreditation_start_date_year", "accreditation_start_date_month",
             "committed_date", "committed_date_year", "committed_date_month",
             "approval_date_year", "approval_date_month"}

\* drop_specified_columns_for_cer_probable also names two misspelt columns.
CerDropList(ty) ==
    IF ty = "probable_power_stations"
    THEN CerDropped(ty) \cup {"comitted_date_year", "comitted_date_month"}
    ELSE CerDropped(ty)

\* The columns save_cer_data filters out of the frame (lines 959-985).
CerSaveFilter(ty) ==
    IF ty = "approved_power_stations"
    THEN {"fuel_source", "accreditation_start_date", "approval_date"}
    ELSE CerDropList(ty)

\* varchar_columns of the migrate_cer_*_schema functions
CerVarcharColumns(ty) ==
    CASE ty = "approved_power_stations" ->
            {"accreditation_code", "power_station_name", "state", "postcode",
             "formatted_address", "place_id"}
      [] ty = "committed_power_stations" ->
            {"project_name", "state", "postcode", "fuel_source", "committed_date"}
      [] ty = "probable_power_stations" ->
            {"project_name", "state", "postcode", "fuel_source", "formatted_address",
             "place_id"}

\* The columns of the cleaned frame of each CER table, as
\* normalize_cer_column_names and process_cer_time_columns name them.
CerFrameColumns(ty) ==
    CASE ty = "approved_power_stations" ->
            <<"accreditation_code", "power_station_name", "state", "postcode",
              "installed_capacity_mw", "fuel_source", "accreditation_start_date",
              "approval_date", "accreditation_start_date_year",
              "accreditation_start_date_month", "approval_date_year",
              "approval_date_month">>
      [] ty = "committed_power_stations" ->
            <<"project_name", "state", "mw_capacity", "fuel_source", "committed_date",
              "committed_date_year", "committed_date_month">>
      [] ty = "probable_power_stations" ->
            <<"project_name", "state", "mw_capacity", "fuel_source">>

\* The database a function works on: tables, columns and the CREATE TABLE and
\* ADD COLUMN statements sent so far.
Database == [tables |-> tables, columns |-> columns, issued |-> {}]

ColumnNames(D, t) == {p[1] : p \in D.columns[t]}

table_exists(D, t) == t \in D.tables

column_exists_never(D, t, c) == FALSE
column_exists(D, t, c) == t \in D.tables /\ c \in ColumnNames(D, t)

create_table_safe(D, t, defs) ==
    IF ~table_exists(D, t)
    THEN [D EXCEPT !.tables = @ \cup {t},
                   !.columns[t] = defs \cup {<<"id", "SERIAL">>},
                   !.issued = @ \cup {<<"CREATE", t, "">>}]
    ELSE D

\* ALTER TABLE t ADD COLUMN c ty: an error when the table is missing or the
\* column is there.
AlterAddColumn(D, t, c, ty) ==
    [D EXCEPT !.issued = @ \cup {<<"ADD", t, c>>},
              !.columns[t] = IF t \in D.tables /\ c \notin ColumnNames(D, t)
                             THEN @ \cup {<<c, ty>>} ELSE @]

add_column_if_not_exists(D, t, c, ty) ==
    IF ~column_exists(D, t, c) THEN AlterAddColumn(D, t, c, ty) ELSE D

\* A loop of add_column_if_not_exists over a list of <<column, type>>.
RECURSIVE AddColumns(_, _, _, _)
AddColumns(D, t, defs, i) ==
    IF i > Len(defs) THEN D
    ELSE AddColumns(add_column_if_not_exists(D, t, defs[i][1], defs[i][2]), t, defs, i + 1)

\* ALTER TABLE t ALTER COLUMN c TYPE VARCHAR for every c of cs that exists
\* (the error for a missing column is swallowed).
AlterColumnsVarchar(D, t, cs) ==
    [D EXCEPT !.columns[t] = {IF p[1] \in cs THEN <<p[1], "VARCHAR">> ELSE p : p \in @}]

\* ALTER TABLE t DROP COLUMN IF EXISTS c, for every c of cs.
DropColumnsIfExist(D, t, cs) ==
    [D EXCEPT !.columns[t] = {p \in @ : p[1] \notin cs}]

migrate_nger_unified_schema(D) ==
    DropColumnsIfExist(
        AlterColumnsVarchar(D, "nger_unified",
            {"year_label", "facility_name", "state", "facility_type", "primary_fuel",
             "reporting_entity", "grid_info", "formatted_address", "place_id",
             "postcode"}),
        "nger_unified", {"controlling_corporation"})

\* ensure_geometry_column_and_index / ensure_area_and_bbox_geometries: the
\* column part.
ensure_geometry_column(D, t, c, ty) ==
    IF ~column_exists(D, t, c) THEN AlterAddColumn(D, t, c, ty) ELSE D

EnsureGeometries(D, t) ==
    ensure_geometry_column(ensure_geometry_column(D, t, "geom", "geometry(Point)"),
                           t, "geom_bbox", "geometry(Polygon)")

create_nger_table_impl(D) ==
    ensure_geometry_column(
        migrate_nger_unified_schema(
            create_table_safe(D, "nger_unified", NgerColumnDefinitions)),
        "nger_unified", "geom", "geometry(Point)")

CerColumnDefinitions(ty) == {p \in CerBaseDefinitions : p[1] \notin CerDropped(ty)}

CerCreateOne(D, ty) == create_table_safe(D, CerTable(ty), CerColumnDefinitions(ty))

CerMigrateOne(D, ty) == AlterColumnsVarchar(D, CerTable(ty), CerVarcharColumns(ty))

CerDropOne(D, ty) == DropColumnsIfExist(D, CerTable(ty), CerDropList(ty))

Over3(F(_, _), D) ==
    F(F(F(D, "approved_power_stations"), "committed_power_stations"),
      "probable_power_stations")

create_cer_tables_impl(D) == Over3(CerDropOne, Over3(CerMigrateOne, Over3(CerCreateOne, D)))

\* save_cer_data lines 953-985: the frame's columns without the geocoding
\* columns and without the table's filtered columns.
RECURSIVE CerOriginalColumns(_, _, _)
CerOriginalColumns(ty, cols, i) ==
    IF i > Len(cols) THEN <<>>
    ELSE IF cols[i] \in SeqRange(GEOCODE_FIELDS) \/ cols[i] \in CerSaveFilter(ty)
    THEN CerOriginalColumns(ty, cols, i + 1)
    ELSE <<cols[i]>> \o CerOriginalColumns(ty, cols, i + 1)

\* "while clean_col in used_names: clean_col = f'{original_name}_{counter}'"
RECURSIVE UniqueName(_, _, _)
UniqueName(c, used, counter) ==
    IF counter = 0 THEN (IF c \in used THEN UniqueName(c, used, 1) ELSE c)
    ELSE IF (c \o "_" \o ToString(counter)) \in used THEN UniqueName(c, used, counter + 1)
    ELSE c \o "_" \o ToString(counter)

\* save_cer_data lines 988-1005: the clean names, made unique against 'id'.
RECURSIVE CerCleanColumns(_, _, _)
CerCleanColumns(cols, i, used) ==
    IF i > Len(cols) THEN <<>>
    ELSE LET c0 == IF cols[i] \in {"postcode", "state_full", "country", "locality"}
                   THEN "original_" \o cols[i] ELSE cols[i]
             c == UniqueName(c0, used, 0)
         IN  <<<<c, "TEXT">>>> \o CerCleanColumns(cols, i + 1, used \cup {c})

GeocodeDefinitions == [i \in 1..Len(GEOCODE_FIELDS) |->
                          <<GEOCODE_FIELDS[i], GeocodeType(GEOCODE_FIELDS[i])>>]

\* save_cer_data lines 1007-1016: all_columns with their types.
CerAllColumns(ty) ==
    CerCleanColumns(CerOriginalColumns(ty, CerFrameColumns(ty), 1), 1, {"id"})
        \o GeocodeDefinitions

\* The columns of the one ABS block of this model, as create_all_abs_tables
\* types them, and the columns insert_abs_data_cleaned makes sure of
\* (lines 1138-1168).
AbsBlockDefinitions == {<<"number_of_businesses", "INTEGER">>}
AbsInsertColumns ==
    <<<<"code", "VARCHAR">>, <<"label", "VARCHAR">>, <<"year", "INTEGER">>,
      <<"number_of_businesses", "INTEGER">>, <<"geographic_level", "INTEGER">>>>

\* An operation ends: the database it leaves, its result, the DDL it sent.
Finish(op, arg, D, result, issued) ==
    /\ tables' = D.tables
    /\ columns' = D.columns
    /\ everHad' = [t \in AllTables |-> everHad[t] \cup D.columns[t]]
    /\ opLast' = [op |-> op, arg |-> arg, result |-> result, issued |-> issued]
    /\ opPrev' = opLast

create_nger_table ==
    /\ LET D == create_nger_table_impl(Database)
       IN  Finish("create_nger_table", "", D, TRUE, D.issued)
    /\ UNCHANGED <<poolVars, loadVars, absVars, partVars, otherVars, laterVars>>

create_cer_tables ==
    /\ LET D == create_cer_tables_impl(Database)
       IN  Finish("create_cer_tables", "", D, TRUE, D.issued)
    /\ UNCHANGED <<poolVars, loadVars, absVars, partVars, otherVars, laterVars>>

\* One block's table; the name of a column at creation is the subject of the
\* ABS naming model below.
create_all_abs_tables ==
    /\ LET D == create_table_safe(Database, "abs_table", AbsBlockDefinitions)
       IN  Finish("create_all_abs_tables", "", D, TRUE, D.issued)
    /\ UNCHANGED <<poolVars, loadVars, absVars, partVars, otherVars, laterVars>>

\* A save in one transaction: committed when every statement succeeds,
\* rolled back (how = "fail": a chunk is rejected) otherwise.  Against a
\* missing table the insert fails.
save_nger_data(how) ==
    /\ LET D0 == Database
           D1 == IF nger_schema_migrated THEN D0 ELSE migrate_nger_unified_schema(D0)
           D2 == AddColumns(D1, "nger_unified", GeocodeDefinitions, 1)
           D3 == EnsureGeometries(D2, "nger_unified")
           ok == how = "ok" /\ table_exists(D0, "nger_unified")
       IN  Finish("save_nger_data", "", IF ok THEN D3 ELSE D0, ok,
                  IF table_exists(D0, "nger_unified") /\ how = "ok" THEN D3.issued
                  ELSE D2.issued)
    /\ nger_schema_migrated' = TRUE
    /\ UNCHANGED <<poolVars, dataset, tblCols, wk, tblRows, fault, absVars, partVars, otherVars, laterVars>>

\* save_cer_data: the tables are created in autocommit when the target is
\* missing (lines 888-921); the rest is one transaction.
save_cer_data(ty, how) ==
    /\ LET D0 == IF table_exists(Database, CerTable(ty)) THEN Database
                 ELSE create_cer_tables_impl(Database)
           D1 == AddColumns(D0, CerTable(ty), CerAllColumns(ty), 1)
           D2 == EnsureGeometries(D1, CerTable(ty))
           ok == how = "ok"
       IN  Finish("save_cer_data", ty, IF ok THEN D2 ELSE D0, ok,
                  IF ok THEN D2.issued ELSE D1.issued)
    /\ UNCHANGED <<poolVars, loadVars, absVars, partVars, otherVars, laterVars>>

insert_abs_data_cleaned(how) ==
    /\ LET D0 == Database
           D1 == AddColumns(D0, "abs_table", AbsInsertColumns, 1)
           ok == how = "ok" /\ table_exists(D0, "abs_table")
       IN  Finish("insert_abs_data_cleaned", "", IF ok THEN D1 ELSE D0, ok, D1.issued)
    /\ UNCHANGED <<poolVars, loadVars, absVars, partVars, otherVars, laterVars>>

SchemaOff ==
    /\ tables = {}
    /\ columns = [t \in AllTables |-> {}]
    /\ everHad = [t \in AllTables |-> {}]
    /\ opLast = NoOp
    /\ opPrev = NoOp

SchemaInit == SchemaOff

NextSchema ==
    \/ create_nger_table
    \/ create_cer_tables
    \/ create_all_abs_tables
    \/ \E how \in {"ok", "fail"} : save_nger_data(how)
    \/ \E ty \in CerTypes : \E how \in {"ok", "fail"} : save_cer_data(ty, how)
    \/ \E how \in {"ok", "fail"} : insert_abs_data_cleaned(how)


(***************************************************************************)
(* Claims about the schema                                                 *)
(***************************************************************************)
\* C2: over any sequence of table-creation and save operations every table
\* keeps every (column, type) pair it ever had: nothing is dropped and no
\* type is changed.
C2_SchemaOnlyGrows == \A t \in AllTables : everHad[t] \subseteq columns[t]

\* C4: when an operation that succeeded is run again with the same arguments
\* right after, the second run sends no CREATE TABLE and no ADD COLUMN, and
\* every table holds one physical column per column name.
C4_SecondEnsureIssuesNothing ==
    /\ (opPrev.op # "none" /\ opPrev.result /\ opLast.op = opPrev.op
            /\ opLast.arg = opPrev.arg) => opLast.issued = {}
    /\ \A t \in AllTables : \A p, q \in columns[t] : p[1] = q[1] => p = q

C4_Witness ==
    /\ opPrev.result /\ opPrev.issued # {}
    /\ opLast.op = opPrev.op /\ opLast.arg = opPrev.arg
    /\ opLast.op \in {"save_cer_data", "insert_abs_data_cleaned", "create_all_abs_tables"}


(***************************************************************************)
(* Claims about fragment loading                                           *)
(***************************************************************************)
\* C1: when two or more workers each saw column X absent and each issued
\* ADD COLUMN X on the same table inside their own transaction, every one of
\* them finishes its load with True and all its rows committed (no other
\* failure being injected).
C1_RacingAddColumnAllSucceed ==
    \A w \in Workers : \A v \in Workers \ {w} :
        (wk[w].pc = "done" /\ ~fault /\ wk[w].adds \cap wk[v].adds # {})
            => (wk[w].result = "True" /\ tblRows[w] = NChunks)

\* C5: a call in which a chunk insert failed has rolled back and returned
\* False with none of its rows committed, and a finished call has committed
\* none or all of its fragment's rows.
C5_FailedChunkRollsBackReturnsFalse ==
    \A w \in Workers :
        wk[w].pc = "done" =>
            /\ wk[w].chunkFailed => (wk[w].result = "False" /\ tblRows[w] = 0)
            /\ tblRows[w] \in {0, NChunks}

\* C30: over all concurrent save_nger_data calls the migration is run from
\* save_nger_data at most once: a call runs it only while the flag
\* _nger_schema_migrated is still false.
C30_MigrationRunsOnce ==
    [][\A w \in Workers :
          (wk[w].pc = "migrate" /\ wk'[w].pc # "migrate") => ~nger_schema_migrated]_vars

\* C25: when save_nger_data or save_cer_data has returned True, all rows of
\* its fragment are committed in the table, also after a swallowed error of
\* a column add or of the geometry step in the same transaction.
C25_TrueMeansRowsCommitted ==
    \A w \in Workers :
        (dataset \in {"nger", "cer"} /\ wk[w].result = "True") => tblRows[w] = NChunks

PoolInit ==
    /\ connection_pool = None
    /\ pool_idle = <<>>
    /\ pool_used = {}
    /\ connState = [h \in Handles |-> "none"]
    /\ active_connections = {}
    /\ callerPc = [t \in Callers |-> "idle"]
    /\ callerConn = [t \in Callers |-> None]
    /\ callerLog = [t \in Callers |-> NoLog]
    /\ poolsMade = 0
    /\ shutdown = FALSE
    /\ last = NoCall

NextPool ==
    \/ \E t \in Callers : GetAcquire(t) /\ UNCHANGED <<loadVars, schemaVars, absVars, partVars, otherVars, laterVars>>
    \/ \E t \in Callers : GetTrack(t) /\ UNCHANGED <<loadVars, schemaVars, absVars, partVars, otherVars, laterVars>>
    \/ \E t \in Callers : RetUntrack(t) /\ UNCHANGED <<loadVars, schemaVars, absVars, partVars, otherVars, laterVars>>
    \/ \E t \in Callers : RetPut(t) /\ UNCHANGED <<loadVars, schemaVars, absVars, partVars, otherVars, laterVars>>
    \/ close_connection_pool /\ UNCHANGED <<loadVars, schemaVars, absVars, partVars, otherVars, laterVars>>
    \/ \E h \in Handles : ConnectionLost(h) /\ UNCHANGED <<loadVars, schemaVars, absVars, partVars, otherVars, laterVars>>


(***************************************************************************)
(* Claims about the connection manager.                                    *)
(***************************************************************************)
InIdle(c) == \E i \in 1..Len(pool_idle) : pool_idle[i] = c

\* C6: get_db_connection only returns a handle whose probe has just passed and
\* that is in the tracked set; when the first handle fails the probe it is
\* discarded (closed, out of the pool) and exactly one further getconn is made
\* before the call gives up.
C6_GetReturnsProbedTracked ==
    last.op = "get" =>
        LET pr == last.log.probes
        IN  /\ last.ret # None =>
                /\ last.ret \in active_connections
                /\ Len(pr) >= 1
                /\ pr[Len(pr)] = [h |-> last.ret, ok |-> TRUE]
            /\ Len(pr) <= 2
            /\ last.log.attempts <= 2
            /\ (Len(pr) >= 1 /\ ~pr[1].ok) =>
                /\ last.log.attempts = 2
                /\ connState[pr[1].h] = "closed"
                /\ pr[1].h \notin pool_used
                /\ ~InIdle(pr[1].h)
            /\ (Len(pr) = 2) => ~pr[1].ok

\* C6 witness: the first handle failed the probe and the retry's handle was
\* returned.
C6_Witness ==
    /\ last.op = "get"
    /\ last.ret # None
    /\ Len(last.log.probes) = 2

\* C7: return_db_connection never raises; a tracked handle that passes the
\* probe while the pool exists goes back through putconn and is untracked; an
\* untracked handle, one failing the probe, or one released when the pool is
\* gone is closed and does not enter the idle list.
C7_ReleaseNeverRaises ==
    last.op = "ret" =>
        /\ ~last.raised
        /\ last.conn \notin active_connections
        /\ IF last.tracked /\ last.probe /\ last.pool
           THEN /\ last.put
                /\ last.conn \notin pool_used
                /\ InIdle(last.conn) \/ connState[last.conn] = "closed"
           ELSE /\ ~last.put
                /\ connState[last.conn] = "closed"
                /\ ~InIdle(last.conn)

\* C7 witness: a tracked handle was released after the pool had been shut
\* down and was closed.
C7_Witness ==
    /\ last.op = "ret"
    /\ last.tracked
    /\ ~last.pool
    /\ connState[last.conn] = "closed"

\* C7 second case reached as well: a tracked, live handle was put back.
C7_WitnessPut ==
    /\ last.op = "ret"
    /\ last.put
    /\ InIdle(last.conn)

\* C26: whenever get_db_connection returns None, no handle taken from the
\* pool during that call is still checked out: every handle that failed the
\* probe, the one of the retry included, was given back or discarded.
C26_NoneLeavesNothingCheckedOut ==
    (last.op = "get" /\ last.ret = None) =>
        \A i \in 1..Len(last.log.probes) : last.log.probes[i].h \notin pool_used

\* C27: the number of slots the pool counts as in use equals the number of
\* handles held by callers, so that a release of a handle that fails the
\* probe frees its slot.
C27_UsedSlotsAreHeldHandles ==
    connection_pool # None =>
        Cardinality(pool_used) = Cardinality({t \in Callers : callerConn[t] # None})

\* C8: after close_connection_pool has run the tracked set is empty, no pool
\* exists any more and every later get_db_connection returns None.
C8_NoHandleAfterShutdown ==
    shutdown =>
        /\ connection_pool = None
        /\ last.op = "close" => active_connections = {}
        /\ last.op = "get" => last.ret = None

(***************************************************************************)
(* Names.  A name is a sequence of characters (one-character strings), so  *)
(* that the normalisation is computed character by character as            *)
(* normalize_db_column_name computes it.                                   *)
(***************************************************************************)
LowerAlpha ==
    <<"a", "b", "c", "d", "e", "f", "g", "h", "i", "j", "k", "l", "m", "n",
    "o", "p", "q", "r", "s", "t", "u", "v", "w", "x", "y", "z">>

UpperAlpha ==
    <<"A", "B", "C", "D", "E", "F", "G", "H", "I", "J", "K", "L", "M", "N",
    "O", "P", "Q", "R", "S", "T", "U", "V", "W", "X", "Y", "Z">>

DigitSeq ==
    <<"0", "1", "2", "3", "4", "5", "6", "7", "8", "9">>

DigitChars == SeqRange(DigitSeq)

\* \w and \s of the regular expressions
\* A letter outside ASCII, upper and lower case: \w matches it (str patterns
\* are Unicode) and str.lower converts it.
UnicodeUpper == <<"É">>
UnicodeLower == <<"é">>

WordChars ==
    SeqRange(LowerAlpha) \cup SeqRange(UpperAlpha) \cup DigitChars \cup {"_"}
        \cup SeqRange(UnicodeUpper) \cup SeqRange(UnicodeLower)
SpaceChars == {" ", "\t"}

MaxIdentifier == 60      \* the length limit of normalize_db_column_name

ReservedWords ==
    {<<"u", "s", "e", "r">>, <<"o", "r", "d", "e", "r">>, <<"g", "r", "o",
    "u", "p">>, <<"s", "e", "l", "e", "c", "t">>, <<"f", "r", "o", "m">>,
    <<"w", "h", "e", "r", "e">>, <<"i", "n", "s", "e", "r", "t">>, <<"u",
    "p", "d", "a", "t", "e">>, <<"d", "e", "l", "e", "t", "e">>, <<"c", "r",
    "e", "a", "t", "e">>, <<"d", "r", "o", "p">>, <<"a", "l", "t", "e",
    "r">>, <<"t", "a", "b", "l", "e">>, <<"i", "n", "d", "e", "x">>, <<"v",
    "i", "e", "w">>, <<"d", "a", "t", "a", "b", "a", "s", "e">>, <<"s", "c",
    "h", "e", "m", "a">>, <<"p", "r", "i", "m", "a", "r", "y">>, <<"f", "o",
    "r", "e", "i", "g", "n">>, <<"k", "e", "y">>, <<"c", "o", "n", "s", "t",
    "r", "a", "i", "n", "t">>, <<"r", "e", "f", "e", "r", "e", "n", "c", "e",
    "s">>, <<"c", "h", "e", "c", "k">>, <<"u", "n", "i", "q", "u", "e">>,
    <<"n", "o", "t">>, <<"n", "u", "l", "l">>, <<"d", "e", "f", "a", "u",
    "l", "t">>, <<"a", "u", "t", "o", "_", "i", "n", "c", "r", "e", "m", "e",
    "n", "t">>, <<"s", "e", "r", "i", "a", "l">>, <<"b", "o", "o", "l", "e",
    "a", "n">>, <<"i", "n", "t", "e", "g", "e", "r">>, <<"v", "a", "r", "c",
    "h", "a", "r">>, <<"t", "e", "x", "t">>, <<"d", "a", "t", "e">>, <<"t",
    "i", "m", "e">>, <<"t", "i", "m", "e", "s", "t", "a", "m", "p">>, <<"n",
    "u", "m", "e", "r", "i", "c">>, <<"r", "e", "a", "l">>, <<"d", "o", "u",
    "b", "l", "e">>, <<"p", "r", "e", "c", "i", "s", "i", "o", "n">>, <<"d",
    "e", "c", "i", "m", "a", "l">>, <<"c", "h", "a", "r">>, <<"b", "i", "n",
    "a", "r", "y">>, <<"b", "l", "o", "b">>}

UnitReplacements ==
    <<<<<<"(", "m", "w", ")">>, <<"_", "m", "w">>>>, <<<<"(", "g", "j",
    ")">>, <<"_", "g", "j">>>>, <<<<"(", "m", "w", "h", ")">>, <<"_", "m",
    "w", "h">>>>, <<<<"(", "t", "c", "o", "2", "e", ")">>, <<"_", "t", "c",
    "o", "2", "e">>>>, <<<<"(", "s", ")">>, <<"s">>>>, <<<<"(", "%", ")">>,
    <<"_", "p", "e", "r", "c", "e", "n", "t">>>>, <<<<"$">>, <<"d", "o", "l",
    "l", "a", "r", "_">>>>>>

UnnamedColumn == <<"u", "n", "n", "a", "m", "e", "d", "_", "c", "o", "l", "u", "m", "n">>


ToLower(c) ==
    IF \E i \in 1..Len(UpperAlpha) : UpperAlpha[i] = c
    THEN LowerAlpha[CHOOSE i \in 1..Len(UpperAlpha) : UpperAlpha[i] = c]
    ELSE IF \E i \in 1..Len(UnicodeUpper) : UnicodeUpper[i] = c
    THEN UnicodeLower[CHOOSE i \in 1..Len(UnicodeUpper) : UnicodeUpper[i] = c]
    ELSE c

Lower(s) == [i \in 1..Len(s) |-> ToLower(s[i])]

\* str.strip / str.strip('_'): without the leading and trailing characters
\* of cs
Strip(s, cs) ==
    LET kept == {i \in 1..Len(s) : s[i] \notin cs}
    IN  IF kept = {} THEN <<>>
        ELSE SubSeq(s, CHOOSE i \in kept : \A k \in kept : i <= k,
                       CHOOSE i \in kept : \A k \in kept : i >= k)

\* The concatenation of pieces[lo..hi]
RECURSIVE Flatten(_, _, _)
Flatten(pieces, lo, hi) ==
    IF lo > hi THEN <<>>
    ELSE IF lo = hi THEN pieces[lo]
    ELSE LET mid == (lo + hi) \div 2
         IN  Flatten(pieces, lo, mid) \o Flatten(pieces, mid + 1, hi)

\* re.sub of a literal pattern that cannot overlap itself (every pattern of
\* unit_replacements): each occurrence becomes rep.
ReplaceAll(s, pat, rep) ==
    LET n == Len(pat)
        starts == {i \in 1..(Len(s) - n + 1) : SubSeq(s, i, i + n - 1) = pat}
        pieces == [i \in 1..Len(s) |->
                      IF i \in starts THEN rep
                      ELSE IF \E k \in starts : k < i /\ i <= k + n - 1 THEN <<>>
                      ELSE <<s[i]>>]
    IN  Flatten(pieces, 1, Len(s))

RECURSIVE ApplyUnitReplacements(_, _)
ApplyUnitReplacements(s, i) ==
    IF i > Len(UnitReplacements) THEN s
    ELSE ApplyUnitReplacements(
             ReplaceAll(s, UnitReplacements[i][1], UnitReplacements[i][2]), i + 1)

\* re.sub(r'[^\w\s]', '', s)
RemoveSpecial(s) ==
    LET Keep(c) == c \in WordChars \cup SpaceChars
    IN  SelectSeq(s, Keep)

\* re.sub(r'[cs]+', rep, s): every run of characters of cs becomes one rep
Squeeze(s, cs, rep) ==
    LET First(i) == s[i] \notin cs \/ i = 1 \/ s[i - 1] \notin cs
        kept == SelectSeq([i \in 1..Len(s) |-> i], First)
    IN  [k \in 1..Len(kept) |-> IF s[kept[k]] \in cs THEN rep ELSE s[kept[k]]]

\* Step 11: the length limit
TruncateNot(s) == s
Truncate(s) == IF Len(s) > MaxIdentifier THEN SubSeq(s, 1, MaxIdentifier) ELSE s

normalize_db_column_name(name) ==
    IF Strip(name, SpaceChars) = <<>> THEN UnnamedColumn
    ELSE LET s2 == Lower(Strip(name, SpaceChars))
             s3 == ApplyUnitReplacements(s2, 1)
             s4 == RemoveSpecial(s3)
             s5 == Squeeze(s4, SpaceChars, "_")
             s6 == Squeeze(s5, {"_"}, "_")
             s7 == Strip(s6, {"_"})
             s8 == IF s7 = <<>> THEN UnnamedColumn ELSE s7
             s9 == IF s8[1] \in DigitChars THEN <<"c", "o", "l", "_">> \o s8 ELSE s8
             s10 == IF Lower(s9) \in ReservedWords
                    THEN s9 \o <<"_", "c", "o", "l">> ELSE s9
         IN  Truncate(s10)

\* str(counter)
RECURSIVE DecimalChars(_)
DecimalChars(n) ==
    IF n < 10 THEN <<DigitSeq[n + 1]>>
    ELSE DecimalChars(n \div 10) \o <<DigitSeq[(n % 10) + 1]>>

\* The first of base_1, base_2, ... that is not used.
FirstFreeSuffixOne(base, used, counter) == base \o <<"_">> \o DecimalChars(counter)
RECURSIVE FirstFreeSuffix(_, _, _)
FirstFreeSuffix(base, used, counter) ==
    IF (base \o <<"_">> \o DecimalChars(counter)) \in used
    THEN FirstFreeSuffix(base, used, counter + 1)
    ELSE base \o <<"_">> \o DecimalChars(counter)

UniqueInNoCheck(norm, used) == norm
UniqueIn(norm, used) == IF norm \in used THEN FirstFreeSuffix(norm, used, 1) ELSE norm

\* A two-pass variant: a name is also suffixed when a later column has it.
RECURSIVE MappingFromLookahead(_, _, _)
MappingFromLookahead(cols, i, used) ==
    IF i > Len(cols) THEN <<>>
    ELSE LET later == {normalize_db_column_name(cols[k]) : k \in (i + 1)..Len(cols)}
             n == UniqueIn(normalize_db_column_name(cols[i]), used \cup later)
         IN  <<n>> \o MappingFromLookahead(cols, i + 1, used \cup {n})

RECURSIVE MappingFrom(_, _, _)
MappingFrom(cols, i, used) ==
    IF i > Len(cols) THEN <<>>
    ELSE LET n == UniqueIn(normalize_db_column_name(cols[i]), used)
         IN  <<n>> \o MappingFrom(cols, i + 1, used \cup {n})

normalize_column_mapping(cols) == MappingFrom(cols, 1, {})

\* create_table_sql_with_normalized_columns: the physical column names of the
\* CREATE TABLE statement after the primary key, in the order of the keys of
\* column_definitions.  Every key is normalised again.
create_table_sql_with_normalized_columns(keys) ==
    MappingFrom(keys, 1, {normalize_db_column_name(<<"i", "d">>)})

(***************************************************************************)
(* One ABS block: create_all_abs_tables creates its table from the block's *)
(* headers, insert_abs_data_cleaned loads Code, Label, Year and the        *)
(* block's columns into it.                                                *)
(***************************************************************************)
MaxBlock == 2            \* columns of a block

H_businesses ==
    <<"N", "u", "m", "b", "e", "r", " ", "o", "f", " ", "b", "u", "s", "i",
    "n", "e", "s", "s", "e", "s">>

H_total ==
    <<"T", "o", "t", "a", "l", " ", "(", "n", "o", ".", ")">>

H_percent ==
    <<"P", "e", "r", "s", "o", "n", "s", " ", "(", "%", ")">>

H_index ==
    <<"I", "n", "d", "e", "x">>

H_area ==
    <<"A", "r", "e", "a", " ", "(", "h", "a", ")">>

H_exits_zero ==
    <<"N", "u", "m", "b", "e", "r", " ", "o", "f", " ", "b", "u", "s", "i",
    "n", "e", "s", "s", " ", "e", "x", "i", "t", "s", " ", "w", "i", "t",
    "h", " ", "t", "u", "r", "n", "o", "v", "e", "r", " ", "o", "f", " ",
    "z", "e", "r", "o", " ", "t", "o", " ", "l", "e", "s", "s", " ", "t",
    "h", "a", "n", " ", "$", "5", "0", "k">>

H_entries_2m ==
    <<"N", "u", "m", "b", "e", "r", " ", "o", "f", " ", "b", "u", "s", "i",
    "n", "e", "s", "s", " ", "e", "n", "t", "r", "i", "e", "s", " ", "w",
    "i", "t", "h", " ", "t", "u", "r", "n", "o", "v", "e", "r", " ", "o",
    "f", " ", "$", "2", "m", " ", "o", "r", " ", "m", "o", "r", "e">>

AbsHeaders == {H_businesses, H_total, H_percent, H_index, H_area, H_exits_zero, H_entries_2m}

AbsKeyColumns ==
    <<<<"C", "o", "d", "e">>, <<"L", "a", "b", "e", "l">>, <<"Y", "e", "a",
    "r">>>>

GeographicLevel == <<"g", "e", "o", "g", "r", "a", "p", "h", "i", "c", "_", "l", "e", "v", "e", "l">>


\* Blocks of distinct headers.
AbsBlocks ==
    UNION {{b \in [1..n -> AbsHeaders] : \A i, j \in 1..n : i # j => b[i] # b[j]}
           : n \in 1..MaxBlock}

\* create_all_abs_tables lines 484-527 for one block.
AbsCreate ==
    /\ absPhase = "new"
    /\ LET normalized_cols == normalize_column_mapping(absBlock)
           physical == create_table_sql_with_normalized_columns(normalized_cols)
       IN  /\ absCreated' = physical
           /\ absTable' = {normalize_db_column_name(<<"i", "d">>)} \cup SeqRange(physical)
    /\ absPhase' = "created"
    /\ UNCHANGED <<absBlock, absInserted, absAdded>>
    /\ UNCHANGED <<poolVars, loadVars, schemaVars, partVars, otherVars, laterVars>>

\* insert_abs_data_cleaned lines 1131-1168: the frame holds Code, Label, Year
\* and the block's columns (process_abs_merged_cell_with_db line 362); every
\* insertion column the table lacks is added.
AbsInsert ==
    /\ absPhase = "created"
    /\ LET cols == normalize_column_mapping(AbsKeyColumns \o absBlock)
           wanted == SeqRange(cols) \cup {GeographicLevel}
       IN  /\ absInserted' = SubSeq(cols, Len(AbsKeyColumns) + 1, Len(cols))
           /\ absAdded' = wanted \ absTable
           /\ absTable' = absTable \cup wanted
    /\ absPhase' = "inserted"
    /\ UNCHANGED <<absBlock, absCreated>>
    /\ UNCHANGED <<poolVars, loadVars, schemaVars, partVars, otherVars, laterVars>>

AbsOff ==
    /\ absBlock = <<>>
    /\ absPhase = "off"
    /\ absTable = {}
    /\ absCreated = <<>>
    /\ absInserted = <<>>
    /\ absAdded = {}

AbsInit ==
    /\ absBlock \in AbsBlocks
    /\ absPhase = "new"
    /\ absTable = {}
    /\ absCreated = <<>>
    /\ absInserted = <<>>
    /\ absAdded = {}

NextAbs ==
    \/ AbsCreate
    \/ AbsInsert

\* C3: the physical column created for a block column is the column the
\* insertion writes that block column to, and loading the block into its
\* freshly created table adds no column besides code, label, year and
\* geographic_level.
C3_CreateNameEqualsInsertName ==
    absPhase = "inserted" =>
        /\ \A i \in 1..Len(absBlock) : absCreated[i] = absInserted[i]
        /\ absAdded \subseteq (SeqRange(normalize_column_mapping(AbsKeyColumns))
                                 \cup {GeographicLevel})

(***************************************************************************)
(* Partitions: fetch_nger_data runs download_nger_year once per year file  *)
(* and reads the records off results_queue; process_abs_data runs          *)
(* process_abs_merged_cell_with_db once per merged cell through            *)
(* run_threading_tasks, which collects what the functions return.          *)
(***************************************************************************)
Tasks == 1..NTasks

ErrNone == "<None>"      \* the error field None

Record(i, success, error) == [label |-> i, success |-> success, error |-> error]

\* "if error:" of the result loop: None and '' are false.
Truthy(e) == e \notin {ErrNone, ""}

\* str(e) of a caught exception: some message, or the empty string.
Messages == {"msg", ""}

PutResultLost(q, rec) == q
PutResult(q, rec) == Append(q, rec)

CountedAny(rec) == TRUE
\* lines 126-131: a record adds to success_count
Counted(rec) == ~Truthy(rec.error) /\ rec.success

AllDone == \A i \in Tasks : taskPc[i] = "done"

\* download_nger_year lines 49-53 and 93-97: the request; an exception or a
\* body that is not JSON ends the partition with one record.
NgerRequest(i) ==
    /\ partKind = "nger" /\ taskPc[i] = "start"
    /\ \E how \in {"ok", "raises", "notjson"} : \E m \in Messages :
        CASE how = "ok" ->
                 /\ taskPc' = [taskPc EXCEPT ![i] = "conn"]
                 /\ UNCHANGED results
          [] how = "raises" ->
                 /\ results' = PutResult(results, Record(i, FALSE, m))
                 /\ taskPc' = [taskPc EXCEPT ![i] = "finally"]
          [] how = "notjson" ->
                 /\ results' = PutResult(results, Record(i, FALSE, "Format error"))
                 /\ taskPc' = [taskPc EXCEPT ![i] = "finally"]
    /\ UNCHANGED <<partKind, taskConn, taskRet, taken, success_count, fetchReturn>>
    /\ UNCHANGED <<poolVars, loadVars, schemaVars, absVars, otherVars, laterVars>>

\* lines 82-92: get_db_connection; without a connection or with an empty
\* frame the partition is recorded as failed.
NgerGetConnection(i) ==
    /\ partKind = "nger" /\ taskPc[i] = "conn"
    /\ \E conn \in BOOLEAN : \E empty \in BOOLEAN :
        /\ taskConn' = [taskConn EXCEPT ![i] = conn]
        /\ IF conn /\ ~empty
           THEN /\ taskPc' = [taskPc EXCEPT ![i] = "save"]
                /\ UNCHANGED results
           ELSE /\ results' = PutResult(results,
                                  Record(i, FALSE, "Database connection failed"))
                /\ taskPc' = [taskPc EXCEPT ![i] = "finally"]
    /\ UNCHANGED <<partKind, taskRet, taken, success_count, fetchReturn>>
    /\ UNCHANGED <<poolVars, loadVars, schemaVars, absVars, otherVars, laterVars>>

\* lines 84-88 and 93: save_nger_data returns True or False, or raises.
NgerSave(i) ==
    /\ partKind = "nger" /\ taskPc[i] = "save"
    /\ \E how \in {"True", "False", "raises"} : \E m \in Messages :
        results' = PutResult(results,
                       CASE how = "True" -> Record(i, TRUE, ErrNone)
                         [] how = "False" -> Record(i, FALSE, "Database insertion failed")
                         [] how = "raises" -> Record(i, FALSE, m))
    /\ taskPc' = [taskPc EXCEPT ![i] = "finally"]
    /\ UNCHANGED <<partKind, taskConn, taskRet, taken, success_count, fetchReturn>>
    /\ UNCHANGED <<poolVars, loadVars, schemaVars, absVars, otherVars, laterVars>>

\* The finally clause of both partition functions: return_db_connection.
TaskFinally(i) ==
    /\ taskPc[i] = "finally"
    /\ taskConn' = [taskConn EXCEPT ![i] = FALSE]
    /\ taskPc' = [taskPc EXCEPT ![i] = IF partKind = "nger" THEN "done" ELSE "returned"]
    /\ UNCHANGED <<partKind, taskRet, results, taken, success_count, fetchReturn>>
    /\ UNCHANGED <<poolVars, loadVars, schemaVars, absVars, otherVars, laterVars>>

\* fetch_nger_data lines 123-131, one turn of the loop, after the executor
\* has joined its threads.
NgerTakeResult ==
    /\ partKind = "nger" /\ AllDone /\ fetchReturn = "none"
    /\ taken < Len(results)
    /\ taken' = taken + 1
    /\ success_count' = success_count + (IF Counted(results[taken + 1]) THEN 1 ELSE 0)
    /\ UNCHANGED <<partKind, taskPc, taskConn, taskRet, results, fetchReturn>>
    /\ UNCHANGED <<poolVars, loadVars, schemaVars, absVars, otherVars, laterVars>>

\* line 134: return success_count > 0
NgerReturn ==
    /\ partKind = "nger" /\ AllDone /\ fetchReturn = "none"
    /\ taken = Len(results)
    /\ fetchReturn' = IF success_count > 0 THEN "True" ELSE "False"
    /\ UNCHANGED <<partKind, taskPc, taskConn, taskRet, results, taken, success_count>>
    /\ UNCHANGED <<poolVars, loadVars, schemaVars, absVars, otherVars, laterVars>>

\* process_abs_merged_cell_with_db lines 355-359
AbsGetConnection(i) ==
    /\ partKind = "abs" /\ taskPc[i] = "start"
    /\ \E conn \in BOOLEAN :
        /\ taskConn' = [taskConn EXCEPT ![i] = conn]
        /\ IF conn
           THEN /\ taskPc' = [taskPc EXCEPT ![i] = "save"]
                /\ UNCHANGED taskRet
           ELSE /\ taskRet' = [taskRet EXCEPT ![i] =
                                  <<Record(i, FALSE, "Database connection failed")>>]
                /\ taskPc' = [taskPc EXCEPT ![i] = "returned"]
    /\ UNCHANGED <<partKind, results, taken, success_count, fetchReturn>>
    /\ UNCHANGED <<poolVars, loadVars, schemaVars, absVars, otherVars, laterVars>>

\* lines 361-377: the insertion returns True or False, or something raises.
AbsInsertBlock(i) ==
    /\ partKind = "abs" /\ taskPc[i] = "save"
    /\ \E how \in {"True", "False", "raises"} : \E m \in Messages :
        taskRet' = [taskRet EXCEPT ![i] =
                       <<CASE how = "True" -> Record(i, TRUE, ErrNone)
                           [] how = "False" -> Record(i, FALSE, "Insertion failed")
                           [] how = "raises" -> Record(i, FALSE, m)>>]
    /\ taskPc' = [taskPc EXCEPT ![i] = "finally"]
    /\ UNCHANGED <<partKind, taskConn, results, taken, success_count, fetchReturn>>
    /\ UNCHANGED <<poolVars, loadVars, schemaVars, absVars, otherVars, laterVars>>

\* run_threading_tasks lines 387-389: results.append(future.result())
CollectResult(i) ==
    /\ partKind = "abs" /\ taskPc[i] = "returned"
    /\ results' = PutResult(results, taskRet[i][1])
    /\ taskPc' = [taskPc EXCEPT ![i] = "done"]
    /\ UNCHANGED <<partKind, taskConn, taskRet, taken, success_count, fetchReturn>>
    /\ UNCHANGED <<poolVars, loadVars, schemaVars, absVars, otherVars, laterVars>>

\* process_abs_data lines 432-435: the results of run_threading_tasks are
\* dropped and the function returns True
AbsReturn ==
    /\ partKind = "abs" /\ AllDone /\ fetchReturn = "none"
    /\ fetchReturn' = "True"
    /\ UNCHANGED <<partKind, taskPc, taskConn, taskRet, results, taken, success_count>>
    /\ UNCHANGED <<poolVars, loadVars, schemaVars, absVars, otherVars, laterVars>>

PartOff ==
    /\ partKind = "off"
    /\ taskPc = [i \in Tasks |-> "off"]
    /\ taskConn = [i \in Tasks |-> FALSE]
    /\ taskRet = [i \in Tasks |-> <<>>]
    /\ results = <<>>
    /\ taken = 0
    /\ success_count = 0
    /\ fetchReturn = "none"

PartInit ==
    /\ partKind \in {"nger", "abs"}
    /\ taskPc = [i \in Tasks |-> "start"]
    /\ taskConn = [i \in Tasks |-> FALSE]
    /\ taskRet = [i \in Tasks |-> <<>>]
    /\ results = <<>>
    /\ taken = 0
    /\ success_count = 0
    /\ fetchReturn = "none"

NextPart ==
    \/ \E i \in Tasks : NgerRequest(i)
    \/ \E i \in Tasks : NgerGetConnection(i)
    \/ \E i \in Tasks : NgerSave(i)
    \/ \E i \in Tasks : TaskFinally(i)
    \/ NgerTakeResult
    \/ NgerReturn
    \/ \E i \in Tasks : AbsGetConnection(i)
    \/ \E i \in Tasks : AbsInsertBlock(i)
    \/ \E i \in Tasks : CollectResult(i)
    \/ AbsReturn

(***************************************************************************)
(* Claims about partitions                                                 *)
(***************************************************************************)
RecordsOf(i) == {k \in 1..Len(results) : results[k].label = i}

Successes == {k \in 1..Len(results) : results[k].success}

\* C9: no partition ever has two result records, every finished partition
\* has exactly one, and a partition that has not finished can take its next
\* step whatever happened to the others.
C9_OneRecordPerPartition ==
    \A i \in Tasks :
        /\ Cardinality(RecordsOf(i)) <= 1
        /\ taskPc[i] = "done" => Cardinality(RecordsOf(i)) = 1
        /\ taskPc[i] \notin {"done", "off"} =>
              ENABLED (\/ NgerRequest(i) \/ NgerGetConnection(i) \/ NgerSave(i)
                       \/ TaskFinally(i) \/ AbsGetConnection(i) \/ AbsInsertBlock(i)
                       \/ CollectResult(i))

C9_Witness ==
    /\ AllDone
    /\ \E i, j \in Tasks : \E k \in RecordsOf(i) : \E l \in RecordsOf(j) :
          ~results[k].success /\ results[l].success

\* C10: when fetch_nger_data has returned, success_count is the number of
\* records with success = true and the return value is True exactly when
\* that number is positive: so True when some but not all partitions
\* succeeded.
C10_PartialSuccessReturnsTrue ==
    (partKind = "nger" /\ fetchReturn # "none") =>
        /\ success_count = Cardinality(Successes)
        /\ (fetchReturn = "True") <=> (success_count > 0)
        /\ (Cardinality(Successes) \in 1..(NTasks - 1)) => fetchReturn = "True"

C10_Witness ==
    /\ partKind = "nger" /\ fetchReturn = "True"
    /\ success_count = Cardinality(Successes)
    /\ Cardinality(Successes) \in 1..(NTasks - 1)

(***************************************************************************)
(* Partition workers on the shared pool: download_nger_year from its       *)
(* get_db_connection on (process_abs_merged_cell_with_db has the same      *)
(* shape), with the connection manager above underneath.  Worker t owns    *)
(* partition t; it is finished when its record is in results and its       *)
(* handle has gone back.                                                   *)
(***************************************************************************)
DownloadNoConnectionSilent(q, t) == q
\* data_processor.py lines 88-89 (and 357-358): the partition's failure record
DownloadNoConnection(q, t) ==
    PutResult(q, Record(t, FALSE, "Database connection failed"))

\* getconn() on this pool raises PoolError: nothing idle, maxconn handed out.
Exhausted ==
    /\ connection_pool # None
    /\ pool_idle = <<>>
    /\ Cardinality(pool_used) = Maxconn

\* line 81: conn = get_db_connection(); lines 82, 88-89 when it is None.
DownloadGetConnection(t) ==
    /\ RecordsOf(t) = {}
    /\ GetAcquire(t)
    /\ results' = IF last'.op = "get" THEN DownloadNoConnection(results, t) ELSE results
    /\ UNCHANGED <<partKind, taskPc, taskConn, taskRet, taken, success_count, fetchReturn>>
    /\ UNCHANGED <<loadVars, schemaVars, absVars, otherVars, laterVars>>

\* get_db_connection returns the probed handle to the worker.
DownloadTrack(t) ==
    /\ GetTrack(t)
    /\ UNCHANGED <<partVars, loadVars, schemaVars, absVars, otherVars, laterVars>>

\* lines 83-87 and 92-93: the save and the partition's record.
DownloadSave(t) ==
    /\ callerPc[t] = "holding"
    /\ RecordsOf(t) = {}
    /\ \E how \in {"True", "False", "raises"} : \E m \in Messages :
        results' = PutResult(results,
                       CASE how = "True" -> Record(t, TRUE, ErrNone)
                         [] how = "False" -> Record(t, FALSE, "Database insertion failed")
                         [] how = "raises" -> Record(t, FALSE, m))
    /\ UNCHANGED <<partKind, taskPc, taskConn, taskRet, taken, success_count, fetchReturn>>
    /\ UNCHANGED <<poolVars, loadVars, schemaVars, absVars, otherVars, laterVars>>

\* lines 95-97: finally: return_db_connection(conn)
DownloadFinallyUntrack(t) ==
    /\ RecordsOf(t) # {}
    /\ RetUntrack(t)
    /\ UNCHANGED <<partVars, loadVars, schemaVars, absVars, otherVars, laterVars>>

DownloadFinallyPut(t) ==
    /\ RetPut(t)
    /\ UNCHANGED <<partVars, loadVars, schemaVars, absVars, otherVars, laterVars>>

DownloadConnectionLost(h) ==
    /\ ConnectionLost(h)
    /\ UNCHANGED <<partVars, loadVars, schemaVars, absVars, otherVars, laterVars>>

NextWork ==
    \/ \E t \in Callers : DownloadGetConnection(t)
    \/ \E t \in Callers : DownloadTrack(t)
    \/ \E t \in Callers : DownloadSave(t)
    \/ \E t \in Callers : DownloadFinallyUntrack(t)
    \/ \E t \in Callers : DownloadFinallyPut(t)
    \/ \E h \in Handles : DownloadConnectionLost(h)

WorkerStep(u) ==
    \/ DownloadGetConnection(u) \/ DownloadTrack(u) \/ DownloadSave(u)
    \/ DownloadFinallyUntrack(u) \/ DownloadFinallyPut(u)

WorkerFinished(u) == RecordsOf(u) # {} /\ callerPc[u] = "idle"

\* C11 (state part): when get_db_connection has just returned None to worker
\* t, the worker holds no handle, partition t has exactly one record and it
\* is the failure record "Database connection failed", no other partition
\* has a record it did not write itself, and every other unfinished worker
\* can take its next step.
C11_NoConnectionState ==
    \A t \in Callers :
        (last.op = "get" /\ last.caller = t /\ last.ret = None) =>
            /\ callerPc[t] = "idle" /\ callerConn[t] = None
            /\ Cardinality(RecordsOf(t)) = 1
            /\ \A k \in RecordsOf(t) :
                  results[k] = Record(t, FALSE, "Database connection failed")
            /\ \A u \in Callers \ {t} :
                  /\ Cardinality(RecordsOf(u)) <= 1
                  /\ ~WorkerFinished(u) => ENABLED WorkerStep(u)

\* C11 (step part): on an exhausted pool no worker obtains a handle, and a
\* step never removes or rewrites the records of the partitions.
C11_NoConnectionStep ==
    /\ Exhausted => \A t \in Callers : callerPc[t] = "idle" => callerPc'[t] = "idle"
    /\ Len(results') >= Len(results)
    /\ SubSeq(results', 1, Len(results)) = results

\* C11: a worker that gets no connection from the pool is answered with
\* None, fails its own partition only, and the others go on.
C11_NoConnectionFailsOwnPartition ==
    []C11_NoConnectionState /\ [][C11_NoConnectionStep]_vars

\* C11 witness: the pool is exhausted, worker t was just refused and has its
\* failure record, while another worker holds a connection and works on.
C11_Witness ==
    /\ Exhausted
    /\ last.op = "get" /\ last.ret = None
    /\ RecordsOf(last.caller) # {}
    /\ \E u \in Callers \ {last.caller} : callerPc[u] = "holding" /\ RecordsOf(u) = {}


\* C28 (state part): every tracked handle is held by a worker that has not
\* released it yet, a finished worker holds nothing, and when all workers
\* have finished the tracked set is empty.
C28_ReleasedState ==
    /\ \A c \in active_connections :
           \E t \in Callers : callerConn[t] = c /\ callerPc[t] = "holding"
    /\ \A t \in Callers : WorkerFinished(t) => callerConn[t] = None
    /\ (~shutdown /\ \A t \in Callers : WorkerFinished(t)) => active_connections = {}

\* C28 (step part): a worker gives up its handle only after its record is
\* written (the finally clause), by the release that takes the handle out of
\* the tracked set, and a finished worker never holds a handle again.
C28_ReleasedStep ==
    \A t \in Callers :
        /\ (callerPc[t] = "holding" /\ callerPc'[t] # "holding") =>
               /\ RecordsOf(t) # {}
               /\ callerConn[t] \notin active_connections'
        /\ WorkerFinished(t) => (callerPc'[t] = "idle" /\ callerConn'[t] = None)

\* C28: every handle a worker obtained through get_db_connection is
\* released through return_db_connection exactly once on every path, the
\* exception and early-return paths included; when all workers have
\* finished the tracked set is empty.
C28_EveryHandleReleasedOnce ==
    []C28_ReleasedState /\ [][C28_ReleasedStep]_vars

\* C28 witness: all workers have finished, one of them after an exception
\* in the save, and the last step was the release of its tracked handle.
C28_Witness ==
    /\ \A t \in Callers : WorkerFinished(t)
    /\ last.op = "ret" /\ last.tracked
    /\ \E k \in RecordsOf(last.caller) : results[k].error = "msg"
    /\ active_connections = {}

(***************************************************************************)
(* Geocoding (geocoding.py).  Every row is geocoded by its own Geocoder    *)
(* instance (geocode_single_station, geocode_single_nger) on a worker      *)
(* thread.  An instance has a memory cache and its own quota manager; all  *)
(* instances share the persistent cache _global_cache.  A geocode_query    *)
(* that goes to the service is two steps: the request leaves, the          *)
(* response arrives.                                                       *)
(***************************************************************************)
Geocoders == 1..NGeocoders
Days == 1..MaxDays

\* Query strings; two of them differ in letter case only.
QueryStrings == {"Alpha, NSW, Australia", "alpha, nsw, australia", "NSW, Australia"}

\* GeocodingCache._get_cache_key: md5 of query.lower().strip()
get_cache_key(q) ==
    IF q \in {"Alpha, NSW, Australia", "alpha, nsw, australia"}
    THEN "md5(alpha, nsw, australia)" ELSE "md5(nsw, australia)"

CacheKeys == {get_cache_key(q) : q \in QueryStrings}

\* A cache slot: no entry, an entry holding None, or an entry holding the
\* result obtained for a query (named by that query).
Absent == "<absent>"
NullEntry == "<null>"
NoResult == "<None>"

\* The fallback lists build_geocode_queries / build_nger_queries produce:
\* non-empty strings, no string twice.
QueryLists ==
    {qs \in UNION {[1..n -> QueryStrings] : n \in 0..MaxQueries} :
        \A i, j \in 1..Len(qs) : i # j => qs[i] # qs[j]}

\* GeocodingCache.get: the entry's 'result' field, None without an entry.
cache_get(P, q) ==
    LET cached_entry == P[get_cache_key(q)]
    IN  IF cached_entry \in {Absent, NullEntry} THEN NoResult ELSE cached_entry

\* GeocodingCache.set / set_none
cache_set(P, q, result) == [P EXCEPT ![get_cache_key(q)] = result]
cache_set_none(P, q) == [P EXCEPT ![get_cache_key(q)] = NullEntry]

\* GoogleMapsQuotaManager.can_make_request on day d: the manager after the
\* call and the answer.
can_make_request(m, d) ==
    LET m1 == IF d # m.current_date
              THEN [current_date |-> d, request_count |-> 0] ELSE m
    IN  [m |-> m1, ok |-> m1.request_count < DailyLimit]

\* GoogleMapsQuotaManager.wait_for_rate_limit: the request is counted.
wait_for_rate_limit(m) == [m EXCEPT !.request_count = @ + 1]

NewGeocoder ==
    [pc |-> "new", queries |-> <<>>, pos |-> 1,
     cache |-> [q \in QueryStrings |-> Absent],
     quota |-> [current_date |-> 1, request_count |-> 0],
     calls |-> <<>>, geocode_result |-> NoResult]

\* "if result: ... break" of the fallback loop
StopNever(result) == FALSE
StopAtResult(result) == result # NoResult

\* The fallback loop after geocode_query(query) has returned `result`.
AfterQuery(r, q, result) ==
    [r EXCEPT !.calls = Append(@, [query |-> q, result |-> result]),
              !.pc = IF StopAtResult(result) THEN "return" ELSE "loop",
              !.pos = @ + 1,
              !.geocode_result = IF result # NoResult THEN result ELSE @]

\* geocode_single_station / geocode_single_nger: a Geocoder is constructed
\* for the row and the row's query list is built.
GeocoderNew(g) ==
    /\ geocoder[g].pc = "new"
    /\ \E qs \in QueryLists :
        geocoder' = [geocoder EXCEPT ![g] =
            [NewGeocoder EXCEPT !.pc = "loop", !.queries = qs,
                                !.quota = [current_date |-> today, request_count |-> 0]]]
    /\ UNCHANGED <<today, persistent, requestsOn, requestLog>>
    /\ UNCHANGED <<poolVars, loadVars, schemaVars, absVars, partVars, nameVars, numVars, laterVars>>

\* geocode_query up to the point where the request is sent (lines 402-423):
\* memory cache, persistent cache, quota.
GeocodeQuery(g) ==
    /\ geocoder[g].pc = "loop"
    /\ geocoder[g].pos <= Len(geocoder[g].queries)
    /\ LET r == geocoder[g]
           q == r.queries[r.pos]
           cached_result == cache_get(persistent, q)
           cm == can_make_request(r.quota, today)
       IN  IF r.cache[q] # Absent
           THEN \* memory hit: the stored value, None included
                /\ geocoder' = [geocoder EXCEPT ![g] =
                       AfterQuery(r, q, IF r.cache[q] = NullEntry THEN NoResult
                                        ELSE r.cache[q])]
                /\ UNCHANGED <<requestsOn, requestLog>>
           ELSE IF cached_result # NoResult
           THEN /\ geocoder' = [geocoder EXCEPT ![g] =
                       AfterQuery([r EXCEPT !.cache[q] = cached_result], q, cached_result)]
                /\ UNCHANGED <<requestsOn, requestLog>>
           ELSE IF ~cm.ok
           THEN /\ geocoder' = [geocoder EXCEPT ![g] =
                       AfterQuery([r EXCEPT !.quota = cm.m], q, NoResult)]
                /\ UNCHANGED <<requestsOn, requestLog>>
           ELSE /\ geocoder' = [geocoder EXCEPT ![g] =
                       [r EXCEPT !.quota = wait_for_rate_limit(cm.m), !.pc = "http"]]
                /\ requestsOn' = [requestsOn EXCEPT ![today] = @ + 1]
                /\ requestLog' = requestLog \cup
                       {[query |-> q, entry |-> persistent[get_cache_key(q)]]}
    /\ UNCHANGED <<today, persistent>>
    /\ UNCHANGED <<poolVars, loadVars, schemaVars, absVars, partVars, nameVars, numVars, laterVars>>

\* geocode_query from the response on (lines 432-504): a result is cached
\* and returned; ZERO_RESULTS or an empty list caches None; any other
\* status or an exception returns None and caches nothing.
GeocodeResponse(g) ==
    /\ geocoder[g].pc = "http"
    /\ LET r == geocoder[g]
           q == r.queries[r.pos]
       IN  \E outcome \in {"OK", "ZERO_RESULTS", "error"} :
            CASE outcome = "OK" ->
                    /\ persistent' = cache_set(persistent, q, q)
                    /\ geocoder' = [geocoder EXCEPT ![g] =
                           AfterQuery([r EXCEPT !.cache[q] = q], q, q)]
              [] outcome = "ZERO_RESULTS" ->
                    /\ persistent' = cache_set_none(persistent, q)
                    /\ geocoder' = [geocoder EXCEPT ![g] =
                           AfterQuery([r EXCEPT !.cache[q] = NullEntry], q, NoResult)]
              [] outcome = "error" ->
                    /\ geocoder' = [geocoder EXCEPT ![g] = AfterQuery(r, q, NoResult)]
                    /\ UNCHANGED persistent
    /\ UNCHANGED <<today, requestsOn, requestLog>>
    /\ UNCHANGED <<poolVars, loadVars, schemaVars, absVars, partVars, nameVars, numVars, laterVars>>

\* geocode_power_station / geocode_nger: the loop is over, return geocode_result.
GeocodeReturn(g) ==
    /\ \/ geocoder[g].pc = "return"
       \/ geocoder[g].pc = "loop" /\ geocoder[g].pos > Len(geocoder[g].queries)
    /\ geocoder' = [geocoder EXCEPT ![g].pc = "done"]
    /\ UNCHANGED <<today, persistent, requestsOn, requestLog>>
    /\ UNCHANGED <<poolVars, loadVars, schemaVars, absVars, partVars, nameVars, numVars, laterVars>>

\* Midnight passes.
NextDay ==
    /\ today < MaxDays
    /\ today' = today + 1
    /\ UNCHANGED <<persistent, geocoder, requestsOn, requestLog>>
    /\ UNCHANGED <<poolVars, loadVars, schemaVars, absVars, partVars, nameVars, numVars, laterVars>>

GeoOff ==
    /\ today = 1
    /\ persistent = [k \in CacheKeys |-> Absent]
    /\ geocoder = [g \in Geocoders |-> NewGeocoder]
    /\ requestsOn = [d \in Days |-> 0]
    /\ requestLog = {}

\* initialize_geocoding_cache: the cache file holds what earlier runs stored.
GeoInit ==
    /\ today = 1
    /\ persistent \in [CacheKeys -> {Absent, NullEntry}]
    /\ geocoder = [g \in Geocoders |-> NewGeocoder]
    /\ requestsOn = [d \in Days |-> 0]
    /\ requestLog = {}

NextGeo ==
    \/ \E g \in Geocoders : GeocoderNew(g)
    \/ \E g \in Geocoders : GeocodeQuery(g)
    \/ \E g \in Geocoders : GeocodeResponse(g)
    \/ \E g \in Geocoders : GeocodeReturn(g)
    \/ NextDay

(***************************************************************************)
(* Claims about geocoding                                                  *)
(***************************************************************************)
\* C12: for one row geocode_query is called on the fallback queries in list
\* order, no query is tried after one that gave a result, the returned
\* record holds the result of that query, and it is all None when every
\* query of the list was tried without a result.
C12_FallbackInOrderStopAtFirst ==
    \A g \in Geocoders :
        LET r == geocoder[g]
            n == Len(r.calls)
        IN  /\ n <= Len(r.queries)
            /\ \A k \in 1..n : r.calls[k].query = r.queries[k]
            /\ \A k \in 1..(n - 1) : r.calls[k].result = NoResult
            /\ r.pc = "done" =>
                  IF n > 0 /\ r.calls[n].result # NoResult
                  THEN r.geocode_result = r.calls[n].result
                  ELSE n = Len(r.queries) /\ r.geocode_result = NoResult

\* C12 witness: the first query failed, the second gave the result, the
\* third was never tried.
C12_Witness ==
    \E g \in Geocoders :
        /\ geocoder[g].pc = "done"
        /\ Len(geocoder[g].queries) = 3
        /\ Len(geocoder[g].calls) = 2
        /\ geocoder[g].geocode_result = geocoder[g].queries[2]

\* C12 second case: every query failed and the record is all None.
C12_WitnessAllFail ==
    \E g \in Geocoders :
        /\ geocoder[g].pc = "done"
        /\ Len(geocoder[g].calls) = 3
        /\ geocoder[g].geocode_result = NoResult

\* C13: no external request is ever sent for a query whose outcome, a
\* result or an explicit None, is in the persistent cache at that time.
C13_StoredOutcomeAnsweredFromCache ==
    \A rq \in requestLog : rq.entry = Absent

\* C14: on no day do the external requests of all Geocoder instances
\* together exceed the daily limit.
C14_DailyQuotaOverAllInstances ==
    \A d \in Days : requestsOn[d] <= DailyLimit


(***************************************************************************)
(* Header normalisation as a function of its input: a list of raw headers  *)
(* goes through normalize_db_column_name header by header and through      *)
(* normalize_column_mapping as a whole.                                    *)
(***************************************************************************)
R_empty ==
    <<>>

R_blank ==
    <<" ", "\t">>

R_digit ==
    <<"2", "0", "2", "4", " ", "T", "o", "t", "a", "l">>

R_reserved ==
    <<"U", "s", "e", "r">>

R_long ==
    <<"N", "u", "m", "b", "e", "r", " ", "o", "f", " ", "b", "u", "s", "i",
    "n", "e", "s", "s", " ", "e", "x", "i", "t", "s", " ", "w", "i", "t",
    "h", " ", "t", "u", "r", "n", "o", "v", "e", "r", " ", "o", "f", " ",
    "z", "e", "r", "o", " ", "t", "o", " ", "l", "e", "s", "s", " ", "t",
    "h", "a", "n", " ", "$", "5", "0", "k">>

R_cafe ==
    <<"C", "a", "f", "é">>

R_cost_dollar ==
    <<"C", "o", "s", "t", " ", "(", "$", ")">>

R_cost ==
    <<"c", "o", "s", "t">>

R_Cost ==
    <<"C", "o", "s", "t">>

R_cost_1 ==
    <<"c", "o", "s", "t", "_", "1">>

\* Raw headers of every kind: empty, white space only, digit first, a
\* reserved word, longer than the limit, with a letter outside ASCII, with
\* a unit sign, equal up to letter case, and one that looks like a
\* deduplicated name.
RawHeaders ==
    {R_empty, R_blank, R_digit, R_reserved, R_long, R_cafe, R_cost_dollar,
     R_cost, R_Cost, R_cost_1}

HeaderLists == UNION {[1..n -> RawHeaders] : n \in 0..MaxHeaders}

\* normalize_db_column_name on every header of the list
NormalizeHeaders ==
    /\ namePc = "input"
    /\ normalizedNames' = [i \in 1..Len(rawHeaders) |->
                              normalize_db_column_name(rawHeaders[i])]
    /\ namePc' = "named"
    /\ UNCHANGED <<rawHeaders, mappedNames>>
    /\ UNCHANGED <<poolVars, loadVars, schemaVars, absVars, partVars, geoVars, numVars, laterVars>>

\* normalize_column_mapping on the list
MapColumns ==
    /\ namePc = "named"
    /\ mappedNames' = normalize_column_mapping(rawHeaders)
    /\ namePc' = "mapped"
    /\ UNCHANGED <<rawHeaders, normalizedNames>>
    /\ UNCHANGED <<poolVars, loadVars, schemaVars, absVars, partVars, geoVars, numVars, laterVars>>

NamesOff ==
    /\ rawHeaders = <<>>
    /\ namePc = "off"
    /\ normalizedNames = <<>>
    /\ mappedNames = <<>>

NamesInit ==
    /\ rawHeaders \in HeaderLists
    /\ namePc = "input"
    /\ normalizedNames = <<>>
    /\ mappedNames = <<>>

NextNames ==
    \/ NormalizeHeaders
    \/ MapColumns


(***************************************************************************)
(* Claims about header normalisation                                       *)
(***************************************************************************)
IdentifierStart == SeqRange(LowerAlpha)
IdentifierChars == SeqRange(LowerAlpha) \cup DigitChars \cup {"_"}

Suffixed(base, k) == base \o <<"_">> \o DecimalChars(k)

\* The names given to the columns before position i
NamesBefore(i) == {mappedNames[j] : j \in 1..(i - 1)}

\* The number of columns before position i with the same normalized form
EarlierSameForm(i) ==
    Cardinality({j \in 1..(i - 1) : normalizedNames[j] = normalizedNames[i]})

\* C15: every normalized name starts with a-z, consists of a-z, 0-9 and the
\* underscore, has between 1 and 60 characters and is not a reserved word.
C15_NormalizedNameIsIdentifier ==
    namePc \in {"named", "mapped"} =>
        \A i \in 1..Len(normalizedNames) :
            LET n == normalizedNames[i]
            IN  /\ Len(n) \in 1..MaxIdentifier
                /\ n[1] \in IdentifierStart
                /\ \A k \in 1..Len(n) : n[k] \in IdentifierChars
                /\ n \notin ReservedWords

\* C16 as stated: the mapped list has the length of the input, its names
\* are pairwise distinct, the first column of a normalized form keeps the
\* form and the k-th later column of that form is form_k.
C16_FirstKeepsFormLaterNumbered ==
    namePc = "mapped" =>
        /\ Len(mappedNames) = Len(rawHeaders)
        /\ \A i, j \in 1..Len(mappedNames) : i # j => mappedNames[i] # mappedNames[j]
        /\ \A i \in 1..Len(mappedNames) :
              mappedNames[i] = IF EarlierSameForm(i) = 0 THEN normalizedNames[i]
                               ELSE Suffixed(normalizedNames[i], EarlierSameForm(i))

\* C16 amended: the mapped list has the length of the input, its names are
\* pairwise distinct, a column whose normalized form is not yet the name of
\* an earlier column keeps the form, and any other column gets form_k for
\* the least k >= 1 that is not yet the name of an earlier column.
C16_DistinctLeastFreeSuffix ==
    namePc = "mapped" =>
        /\ Len(mappedNames) = Len(rawHeaders)
        /\ \A i, j \in 1..Len(mappedNames) : i # j => mappedNames[i] # mappedNames[j]
        /\ \A i \in 1..Len(mappedNames) :
              IF normalizedNames[i] \notin NamesBefore(i)
              THEN mappedNames[i] = normalizedNames[i]
              ELSE \E k \in 1..i :
                      /\ mappedNames[i] = Suffixed(normalizedNames[i], k)
                      /\ \A m \in 1..(k - 1) :
                            Suffixed(normalizedNames[i], m) \in NamesBefore(i)

\* C16 witness: a header whose form is the name an earlier duplicate was
\* given, followed by one more duplicate: cost, Cost, cost_1, ... is out of
\* reach of three headers, so the list is cost, Cost, cost_1.
C16_Witness ==
    /\ namePc = "mapped"
    /\ rawHeaders = <<R_cost, R_Cost, R_cost_1>>
    /\ mappedNames[3] = Suffixed(normalizedNames[3], 1)

\* C17 as stated: ["Cost ($)", "cost", "Cost"] is mapped to
\* ["dollar_cost", "cost", "cost_1"].
C17_CostExampleDollarFirst ==
    (namePc = "mapped" /\ rawHeaders = <<R_cost_dollar, R_cost, R_Cost>>) =>
        mappedNames = <<<<"d", "o", "l", "l", "a", "r", "_", "c", "o", "s", "t">>, <<"c", "o", "s", "t">>, <<"c", "o", "s", "t", "_", "1">>>>

\* C17 amended: ["Cost ($)", "cost", "Cost"] is mapped to
\* ["cost_dollar", "cost", "cost_1"]: the sign is replaced where it stands.
C17_CostExampleDollarInPlace ==
    (namePc = "mapped" /\ rawHeaders = <<R_cost_dollar, R_cost, R_Cost>>) =>
        mappedNames = <<<<"c", "o", "s", "t", "_", "d", "o", "l", "l", "a", "r">>, <<"c", "o", "s", "t">>, <<"c", "o", "s", "t", "_", "1">>>>

C17_Witness ==
    /\ namePc = "mapped"
    /\ rawHeaders = <<R_cost_dollar, R_cost, R_Cost>>
    /\ Len(mappedNames) = 3

\* C18 as stated: every mapped name, suffixed or not, has at most 60
\* characters and is not a reserved word.
C18_MappedNameWithinLimit ==
    namePc = "mapped" =>
        \A i \in 1..Len(mappedNames) :
            /\ Len(mappedNames[i]) <= MaxIdentifier
            /\ mappedNames[i] \notin ReservedWords

\* C18 amended: a mapped name without a deduplication suffix has at most 60
\* characters, one with a suffix at most 60 plus the length of the suffix
\* (the underscore and the digits of the counter), and no mapped name is a
\* reserved word.
C18_MappedNameWithinLimitPlusSuffix ==
    namePc = "mapped" =>
        \A i \in 1..Len(mappedNames) :
            /\ Len(normalizedNames[i]) <= MaxIdentifier
            /\ \/ mappedNames[i] = normalizedNames[i]
               \/ \E k \in 1..i :
                     /\ mappedNames[i] = Suffixed(normalizedNames[i], k)
                     /\ Len(mappedNames[i]) <= MaxIdentifier + 1 + Len(DecimalChars(k))
            /\ mappedNames[i] \notin ReservedWords

\* C18 witness: a header longer than the limit twice, the second name has
\* 62 characters.
C18_Witness ==
    /\ namePc = "mapped"
    /\ \E i \in 1..Len(mappedNames) : Len(mappedNames[i]) = MaxIdentifier + 2

\* C19: the names of the first k columns are the mapping of the first k
\* headers alone, for every k.
C19_MappingOfPrefixIsPrefix ==
    namePc = "mapped" =>
        \A k \in 0..Len(rawHeaders) :
            SubSeq(mappedNames, 1, k) = normalize_column_mapping(SubSeq(rawHeaders, 1, k))

\* C19 witness: the last of three columns was renamed because of the
\* columns before it.
C19_Witness ==
    /\ namePc = "mapped"
    /\ Len(rawHeaders) = 3
    /\ mappedNames[3] # normalizedNames[3]
    /\ mappedNames[2] = normalizedNames[2]

NumOff ==
    /\ numValue = <<>>
    /\ numTarget = "off"
    /\ numResult = [kind |-> "off"]

(***************************************************************************)
(* Numeric cleaning (data_cleaner.py): clean_numeric_value on one cell     *)
(* value.  A string is a sequence of characters; float() and int() are     *)
(* computed from the characters.  A float is None-like "nan", "inf" with   *)
(* a sign, or the finite decimal (-1)^neg * num * 10^exp10.                *)
(***************************************************************************)
MISSING_VALUE_INDICATORS ==
    {<<"-">>, <<>>, <<"n", "a", "n">>, <<"N", "a", "N">>, <<"n", "o", "n",
    "e">>, <<"N", "o", "n", "e">>, <<"N", "U", "L", "L">>, <<"n", "u", "l",
    "l">>, <<"N", "/", "A">>, <<"n", "/", "a">>}

\* The value None (pd.isna is true of it), apart from every string
PyNone == <<"<None>">>

FloatMaxExp10 == 308     \* sys.float_info.max_10_exp: beyond it float() gives inf

\* is_missing_value without the comparison in lower case
is_missing_value_exact(value) ==
    \/ value = PyNone
    \/ Strip(value, SpaceChars) \in MISSING_VALUE_INDICATORS

\* is_missing_value, lines 39-43
is_missing_value(value) ==
    \/ value = PyNone
    \/ \E m \in MISSING_VALUE_INDICATORS : Lower(Strip(value, SpaceChars)) = Lower(m)

\* re.sub(r'[cs]', '', s)
RemoveChars(s, cs) ==
    LET Keep(c) == c \notin cs
    IN  SelectSeq(s, Keep)

\* re.sub of an alternation of single characters and words, flags
\* IGNORECASE: one scan from the left, a match is dropped and the scan goes
\* on behind it.
RECURSIVE RemoveTokens(_, _, _)
RemoveTokens(s, cs, words) ==
    IF s = <<>> THEN <<>>
    ELSE IF s[1] \in cs THEN RemoveTokens(Tail(s), cs, words)
    ELSE IF \E w \in words : Len(w) <= Len(s) /\ Lower(SubSeq(s, 1, Len(w))) = Lower(w)
    THEN LET w == CHOOSE w \in words :
                     Len(w) <= Len(s) /\ Lower(SubSeq(s, 1, Len(w))) = Lower(w)
         IN  RemoveTokens(SubSeq(s, Len(w) + 1, Len(s)), cs, words)
    ELSE <<s[1]>> \o RemoveTokens(Tail(s), cs, words)

AllDigits(s) == \A i \in 1..Len(s) : s[i] \in DigitChars

DigitValue(c) == (CHOOSE i \in 1..10 : DigitSeq[i] = c) - 1

RECURSIVE DigitsValue(_)
DigitsValue(s) ==
    IF s = <<>> THEN 0 ELSE 10 * DigitsValue(SubSeq(s, 1, Len(s) - 1)) + DigitValue(s[Len(s)])

RECURSIVE Pow10(_)
Pow10(n) == IF n <= 0 THEN 1 ELSE 10 * Pow10(n - 1)

ValueError == [kind |-> "ValueError"]

\* float(s): white space around is ignored; a sign; inf, infinity or nan in
\* any letter case, or digits with at most one point and an optional
\* exponent.  A value beyond the largest float is inf.  The text is taken
\* apart in steps: sign, exponent mark, decimal point, digits.
CountChar(s, c) == Cardinality({i \in 1..Len(s) : s[i] = c})

IndexOf(s, c) ==
    IF CountChar(s, c) = 0 THEN Len(s) + 1 ELSE CHOOSE i \in 1..Len(s) : s[i] = c

HasMinus(t) == t # <<>> /\ t[1] = "-"

Unsigned(t) == IF t # <<>> /\ t[1] \in {"+", "-"} THEN Tail(t) ELSE t

\* The float of the decimal (-1)^neg * num * 10^exp10
FloatOfNumber(num, exp10, neg) ==
    IF num # 0 /\ Len(DecimalChars(num)) - 1 + exp10 > FloatMaxExp10
    THEN [kind |-> "inf", neg |-> neg]
    ELSE [kind |-> "finite", neg |-> neg /\ num # 0, num |-> num, exp10 |-> exp10]

\* A double holds 53 bits: a decimal of at most 15 significant digits is
\* told apart from its neighbours, a longer one is rounded to the nearest
\* double.  The long decimals of the model are those just below 1: from
\* 1 - 2^-54 (0.99999999999999994448...) on the nearest double is 1.0.
DoubleDigits == 15

NinesBeforeOne == 16     \* 0.9999999999999999 (16 nines) is still below 1.0 as a double

RoundsToOne(ipart, fpart) ==
    /\ \A i \in 1..Len(ipart) : ipart[i] = "0"
    /\ Len(fpart) > NinesBeforeOne
    /\ \A i \in 1..NinesBeforeOne : fpart[i] = "9"
    /\ fpart[NinesBeforeOne + 1] \in {"5", "6", "7", "8", "9"}

\* Integer part, fraction part and exponent digits of the text
FloatOfDigits(ipart, fpart, hasExp, eneg, edigits, neg) ==
    IF \/ ~AllDigits(ipart) \/ ~AllDigits(fpart) \/ ipart \o fpart = <<>>
       \/ (hasExp /\ (edigits = <<>> \/ ~AllDigits(edigits)))
    THEN ValueError
    ELSE IF ~hasExp /\ RoundsToOne(ipart, fpart) THEN FloatOfNumber(1, 0, neg)
    ELSE FloatOfNumber(DigitsValue(ipart \o fpart),
                       (IF ~hasExp THEN 0
                        ELSE IF eneg THEN 0 - DigitsValue(edigits)
                        ELSE DigitsValue(edigits)) - Len(fpart),
                       neg)

\* Mantissa and exponent of the text
FloatOfParts(mant, hasExp, expo, neg) ==
    IF CountChar(mant, ".") > 1 THEN ValueError
    ELSE FloatOfDigits(SubSeq(mant, 1, IndexOf(mant, ".") - 1),
                       SubSeq(mant, IndexOf(mant, ".") + 1, Len(mant)),
                       hasExp, HasMinus(expo), Unsigned(expo), neg)

\* The text behind the sign, in lower case
FloatOfBody(low, neg) ==
    IF low \in {<<"i", "n", "f">>, <<"i", "n", "f", "i", "n", "i", "t", "y">>}
    THEN [kind |-> "inf", neg |-> neg]
    ELSE IF low = <<"n", "a", "n">> THEN [kind |-> "nan"]
    ELSE IF CountChar(low, "e") > 1 THEN ValueError
    ELSE FloatOfParts(SubSeq(low, 1, IndexOf(low, "e") - 1),
                      CountChar(low, "e") = 1,
                      SubSeq(low, IndexOf(low, "e") + 1, Len(low)), neg)

FloatOfText(t) == FloatOfBody(Lower(Unsigned(t)), HasMinus(t))

py_float(s) == FloatOfText(Strip(s, SpaceChars))

\* int(f) as the floor of f
py_int_floor(f) ==
    CASE f.kind = "inf" -> [kind |-> "OverflowError"]
      [] f.kind = "nan" -> ValueError
      [] f.kind = "finite" ->
            LET q == IF f.exp10 >= 0 THEN f.num * Pow10(f.exp10)
                     ELSE f.num \div Pow10(0 - f.exp10)
                exact == f.exp10 >= 0 \/ f.num % Pow10(0 - f.exp10) = 0
                n == IF f.neg /\ ~exact THEN q + 1 ELSE q
            IN  [kind |-> "finite", neg |-> f.neg /\ n # 0, num |-> n, exp10 |-> 0]

\* int(f): the truncation toward zero; OverflowError for an infinity,
\* ValueError for nan.
py_int(f) ==
    CASE f.kind = "inf" -> [kind |-> "OverflowError"]
      [] f.kind = "nan" -> ValueError
      [] f.kind = "finite" ->
            LET n == IF f.exp10 >= 0 THEN f.num * Pow10(f.exp10)
                     ELSE f.num \div Pow10(0 - f.exp10)
            IN  [kind |-> "finite", neg |-> f.neg /\ n # 0, num |-> n, exp10 |-> 0]

\* f / 100.0
DivideBy100(f) == IF f.kind = "finite" THEN [f EXCEPT !.exp10 = @ - 2] ELSE f

\* "except (ValueError, TypeError): return None" around a conversion
Caught(error) == error.kind = "ValueError"
CaughtAll(error) == TRUE

\* The outcome of the try block whose last conversion gave r
TryResult(r) ==
    IF r.kind \in {"finite", "inf", "nan"} THEN [kind |-> "number", value |-> r]
    ELSE IF Caught(r) THEN [kind |-> "None"]
    ELSE [kind |-> "raises", error |-> r.kind]

Letters == SeqRange(LowerAlpha) \cup SeqRange(UpperAlpha)

TargetTypes == {"integer", "float", "percentage", "currency", "capacity"}

\* clean_numeric_value, lines 409-457
clean_numeric_value(value, target_type) ==
    IF value = PyNone \/ is_missing_value(value) THEN [kind |-> "None"]
    ELSE LET str_val == Strip(value, SpaceChars)
         IN  CASE target_type = "percentage" ->
                      TryResult(LET f == py_float(RemoveChars(
                                             RemoveChars(str_val, {"%"} \cup SpaceChars), {","}))
                                IN  IF f.kind = "ValueError" THEN f ELSE DivideBy100(f))
               [] target_type = "currency" ->
                      TryResult(py_float(RemoveTokens(str_val,
                          {"$", "€", "£", "¥", ","} \cup SpaceChars,
                          {<<"A", "U", "D">>, <<"U", "S", "D">>, <<"E", "U", "R">>,
                           <<"G", "B", "P">>})))
               [] target_type = "capacity" ->
                      TryResult(py_float(RemoveChars(
                          RemoveChars(str_val, {","} \cup SpaceChars), Letters)))
               [] target_type = "integer" ->
                      TryResult(LET f == py_float(RemoveChars(str_val, {","} \cup SpaceChars))
                                IN  IF f.kind = "ValueError" THEN f ELSE py_int(f))
               [] target_type = "float" ->
                      TryResult(py_float(RemoveChars(str_val, {","} \cup SpaceChars)))

\* The missing-value signs in other letter cases and inside white space
SentinelValues ==
    {<<"-">>, <<" ", "-", "\t">>, <<" ", " ">>, <<"\t", "N", "A", "N">>,
     <<"n", "A", "n", " ">>, <<"N", "O", "N", "E">>, <<" ", "n", "O", "n", "e">>,
     <<"N", "u", "l", "l">>, <<"n", "/", "A", " ", " ">>, <<"N", "/", "a">>}

\* 0.99999999999999999, seventeen nines
V_nines == <<"0", ".">> \o [i \in 1..(NinesBeforeOne + 1) |-> "9"]

\* Cell values: decimals with and without sign, separators, units and
\* currency signs, infinities, an exponent beyond the float range, text,
\* the missing-value signs and None.
CellValues ==
    {PyNone, <<"1", "2", ".", "9">>, <<"-", "3", ".", "7">>, <<"1", ",", "2",
    "3", "4">>, <<"i", "n", "f">>, <<"-", "I", "n", "f", "i", "n", "i", "t",
    "y">>, <<"1", "e", "9", "9", "9">>, <<"1", "e", "3">>, <<"a", "b", "c">>,
    <<>>, <<" ", "N", "/", "A", " ">>, <<"4", "5", "%">>, <<"$", "1", ",",
    "2", "0", "0">>, <<"1", "5", "0", ".", "5", " ", "M", "W">>, <<"1", ".",
    "2", ".", "3">>, <<" ", "7", " ">>, <<"A", "U", "D", " ", "2", "0">>,
    <<"-", "0", ".", "5">>, <<"1", " ", "2", ",", "3", ".", "9">>, V_nines, <<"-">> \o V_nines}
    \cup SentinelValues

CleanNumericValue ==
    /\ numResult = [kind |-> "pending"]
    /\ numResult' = clean_numeric_value(numValue, numTarget)
    /\ UNCHANGED <<numValue, numTarget>>
    /\ UNCHANGED <<poolVars, loadVars, schemaVars, absVars, partVars, geoVars, nameVars, laterVars>>

NumInit ==
    /\ numValue \in CellValues
    /\ numTarget \in TargetTypes
    /\ numResult = [kind |-> "pending"]

NextNum ==
    CleanNumericValue

(***************************************************************************)
(* Claims about numeric cleaning                                           *)
(***************************************************************************)
\* C20: for every cell value and every target type clean_numeric_value
\* returns a number or None; it never raises.
C20_CleanNeverRaises ==
    numResult.kind \notin {"off", "pending"} => numResult.kind \in {"number", "None"}

\* The missing-value signs of the specification, in lower case
SentinelForms ==
    {<<"-">>, <<>>, <<"n", "a", "n">>, <<"n", "o", "n", "e">>,
     <<"n", "u", "l", "l">>, <<"n", "/", "a">>}

IsSentinel(value) ==
    value # PyNone /\ Lower(Strip(value, SpaceChars)) \in SentinelForms

\* C21: for a missing-value sign in any letter case and inside any white
\* space, and for every target type, clean_numeric_value returns None.
C21_SentinelGivesNone ==
    (IsSentinel(numValue) /\ numResult.kind # "pending") => numResult.kind = "None"

C21_Witness ==
    /\ numValue = <<"\t", "N", "A", "N">>
    /\ numTarget = "float"
    /\ numResult.kind = "None"

(***************************************************************************)
(* Type detection (data_cleaner.py): detect_numeric_columns on one column. *)
(* The column is kept top down as runs of equal cell values, so that the   *)
(* sample limits of the code keep their size.                              *)
(***************************************************************************)
MaxRuns == 3           \* runs of equal values in one column

SampleHead == 100      \* head(100): non-null values sampled
CheckedLimit == 50     \* str_values[:50]: values scored
DecimalLimit == 20     \* str_values[:20]: values searched for a decimal point

RunCounts == {1, 3, 7, 25, 100}

SampleCells ==
    {PyNone, <<"N", "/", "A">>, <<"1", "2">>, <<"1", ".", "5">>, <<"4", "5", "%">>,
     <<"$", "1", "2">>, <<"a", "b", "c">>}

Runs == [value : SampleCells, count : RunCounts]

Columns == UNION {[1..n -> Runs] : n \in 0..MaxRuns}

RECURSIVE RunsLen(_)
RunsLen(runs) == IF runs = <<>> THEN 0 ELSE runs[1].count + RunsLen(Tail(runs))

\* The first n values of the runs: head(n) and [:n]
RECURSIVE TakeRuns(_, _)
TakeRuns(runs, n) ==
    IF runs = <<>> \/ n <= 0 THEN <<>>
    ELSE IF runs[1].count <= n
    THEN <<runs[1]>> \o TakeRuns(Tail(runs), n - runs[1].count)
    ELSE <<[runs[1] EXCEPT !.count = n]>>

\* Series.dropna()
dropna(runs) ==
    LET NotNull(r) == r.value # PyNone
    IN  SelectSeq(runs, NotNull)

\* [str(v).strip() for v in sample_values if not is_missing_value(v)]
ValidValues(runs) ==
    LET Valid(r) == ~is_missing_value(r.value)
        kept == SelectSeq(runs, Valid)
    IN  [i \in 1..Len(kept) |-> [kept[i] EXCEPT !.value = Strip(@, SpaceChars)]]

\* w in s
Contains(s, w) ==
    \E i \in 1..(Len(s) - Len(w) + 1) : SubSeq(s, i, i + Len(w) - 1) = w

\* int(s): an optional sign and digits, white space around ignored
IntParses(s) ==
    LET t == Unsigned(Strip(s, SpaceChars))
    IN  t # <<>> /\ AllDigits(t)

\* The scoring of one value, lines 369-390: the first test that matches
Category(val) ==
    IF "%" \in SeqRange(val) \/ Contains(Lower(val), <<"p", "e", "r", "c", "e", "n", "t">>)
    THEN "percentage"
    ELSE IF \/ SeqRange(val) \cap {"$", "€", "£", "¥"} # {}
            \/ Contains(val, <<"A", "U", "D">>) \/ Contains(val, <<"U", "S", "D">>)
    THEN "currency"
    ELSE LET clean_val == RemoveChars(val, {","} \cup SpaceChars)
         IN  IF "." \in SeqRange(clean_val)
             THEN IF py_float(clean_val).kind # "ValueError" THEN "numeric" ELSE "other"
             ELSE IF IntParses(clean_val) THEN "numeric" ELSE "other"

CountOf(runs, cat) ==
    LET Is(r) == Category(r.value) = cat
    IN  RunsLen(SelectSeq(runs, Is))

\* Type determination with the currency test before the percentage test
TypeOfCurrencyFirst(percentage_count, currency_count, numeric_count, total_checked, has_decimal) ==
    IF 10 * currency_count > 3 * total_checked THEN "currency"
    ELSE IF 10 * percentage_count > 3 * total_checked THEN "percentage"
    ELSE IF 10 * numeric_count > 7 * total_checked
    THEN IF has_decimal THEN "float" ELSE "integer"
    ELSE "text"

\* Type determination, lines 396-405.  The comparisons with
\* total_checked * 0.3 and of numeric_count / total_checked with 0.7 in
\* double precision agree with the exact ones for every total up to 50.
TypeOf(percentage_count, currency_count, numeric_count, total_checked, has_decimal) ==
    IF 10 * percentage_count > 3 * total_checked THEN "percentage"
    ELSE IF 10 * currency_count > 3 * total_checked THEN "currency"
    ELSE IF 10 * numeric_count > 7 * total_checked
    THEN IF has_decimal THEN "float" ELSE "integer"
    ELSE "text"

\* The values that are scored: the first 50 valid ones of the first 100
\* non-null ones
ScoredValues(column) ==
    TakeRuns(ValidValues(TakeRuns(dropna(column), SampleHead)), CheckedLimit)

\* detect_numeric_columns for one column, lines 352-405
detect_numeric_column(column) ==
    LET sample_values == TakeRuns(dropna(column), SampleHead)
        str_values == ValidValues(sample_values)
        checked == TakeRuns(str_values, CheckedLimit)
        searched == TakeRuns(str_values, DecimalLimit)
    IN  IF sample_values = <<>> THEN "text"
        ELSE IF str_values = <<>> THEN "text"
        ELSE TypeOf(CountOf(checked, "percentage"), CountOf(checked, "currency"),
                    CountOf(checked, "numeric"), RunsLen(checked),
                    \E i \in 1..Len(searched) :
                        "." \in SeqRange(RemoveChars(searched[i].value,
                                                     {","} \cup SpaceChars)))

DetectNumericColumns ==
    /\ detResult = "pending"
    /\ detResult' = detect_numeric_column(detColumn)
    /\ UNCHANGED detColumn
    /\ UNCHANGED <<poolVars, loadVars, schemaVars, absVars, partVars, otherVars, cerVars, singletonVars, lastVars>>

DetectInit ==
    /\ detColumn \in Columns
    /\ detResult = "pending"

DetectOff ==
    /\ detColumn = <<>>
    /\ detResult = "off"


NextDetect ==
    DetectNumericColumns

(***************************************************************************)
(* Claims about type detection                                             *)
(***************************************************************************)
Scored(cat) == CountOf(ScoredValues(detColumn), cat)
ScoredTotal == RunsLen(ScoredValues(detColumn))
Detected == detResult \notin {"off", "pending"}

\* C22: over the scored samples the column is percentage when the
\* percentage matches are strictly more than 30% of them; otherwise currency
\* when the currency matches are strictly more than 30%; otherwise integer
\* or float when strictly more than 70% parse as numbers; otherwise text.
C22_TypeByStrictPriority ==
    (Detected /\ ScoredTotal > 0) =>
        LET pct == 10 * Scored("percentage") > 3 * ScoredTotal
            cur == 10 * Scored("currency") > 3 * ScoredTotal
            num == 10 * Scored("numeric") > 7 * ScoredTotal
        IN  /\ pct => detResult = "percentage"
            /\ (~pct /\ cur) => detResult = "currency"
            /\ (~pct /\ ~cur /\ num) => detResult \in {"integer", "float"}
            /\ (~pct /\ ~cur /\ ~num) => detResult = "text"

\* Both shares above 30%: the percentage test wins.
C22_Witness ==
    /\ Detected
    /\ 10 * Scored("percentage") > 3 * ScoredTotal
    /\ 10 * Scored("currency") > 3 * ScoredTotal
    /\ detResult = "percentage"

\* Exactly 30% percentages and exactly 70% numbers: text.
C22_WitnessBoundary ==
    /\ Detected
    /\ ScoredTotal = 10
    /\ Scored("percentage") = 3
    /\ Scored("numeric") = 7
    /\ detResult = "text"

NonMissing(column) ==
    LET Valid(r) == r.value # PyNone /\ ~is_missing_value(r.value)
    IN  SelectSeq(column, Valid)

\* C23: missing-value signs do not count: a column whose non-missing values
\* all parse as numbers is integer or float however many signs it holds,
\* and a column without a non-missing value is text.
C23_MissingLeftOutOfRatio ==
    Detected =>
        /\ (/\ NonMissing(detColumn) # <<>>
            /\ CountOf(NonMissing(detColumn), "numeric") = RunsLen(NonMissing(detColumn)))
           => detResult \in {"integer", "float"}
        /\ NonMissing(detColumn) = <<>> => detResult = "text"

(***************************************************************************)
(* One CER fragment (database_utils.py save_cer_data): the raw headers are *)
(* normalised into column names, the columns are added to the table and    *)
(* the row is turned into the tuple that is sent.                          *)
(***************************************************************************)
\* A cell of the frame: a str, a float (text is its str()) or None
CellStr(text) == [kind |-> "str", text |-> text]
CellFloat(text) == [kind |-> "float", text |-> text]
CellNone == [kind |-> "None", text |-> <<>>]

\* The string of a sequence of characters
RECURSIVE JoinChars(_)
JoinChars(s) == IF s = <<>> THEN "" ELSE s[1] \o JoinChars(Tail(s))

\* is_valid_value, lines 219-224
is_valid_value(cell) ==
    /\ cell.kind # "None"
    /\ Strip(cell.text, SpaceChars) # <<>>
    /\ Lower(Strip(cell.text, SpaceChars))
           \notin {<<"n", "a", "n">>, <<"n", "o", "n", "e">>, <<"n", "u", "l", "l">>, <<"-">>}

\* clean_value, lines 226-233: None or the stripped str(value), cut at
\* max_length (0: no limit)
clean_value(cell, max_length) ==
    IF ~is_valid_value(cell) THEN CellNone
    ELSE LET str_val == Strip(cell.text, SpaceChars)
         IN  IF max_length # 0 /\ Len(str_val) > max_length
             THEN CellStr(SubSeq(str_val, 1, max_length))
             ELSE CellStr(str_val)

\* varchar_max_lengths.get(column), lines 1018-1028
varchar_max_lengths(c) ==
    CASE c = "accreditation_code" -> 64
      [] c \in {"power_station_name", "project_name", "formatted_address"} -> 255
      [] c = "state" -> 64
      [] c = "postcode" -> 16
      [] c \in {"fuel_source", "place_id"} -> 128
      [] OTHER -> 0

\* _to_date, lines 1031-1048: None for an invalid value, else the date
to_date(cell) ==
    IF ~is_valid_value(cell) THEN CellNone
    ELSE [kind |-> "date", text |-> Strip(cell.text, SpaceChars)]

H_facility_name == <<"F", "a", "c", "i", "l", "i", "t", "y", " ", "N", "a", "m", "e">>
H_installed_capacity ==
    <<"I", "n", "s", "t", "a", "l", "l", "e", "d", " ", "C", "a", "p", "a", "c", "i",
      "t", "y", " ", "(", "M", "W", ")">>
H_state == <<"S", "t", "a", "t", "e">>
H_mw_capacity == <<"M", "W", " ", "C", "a", "p", "a", "c", "i", "t", "y">>
H_postcode == <<"P", "o", "s", "t", "c", "o", "d", "e">>
H_installed_capacity_mw ==
    <<"i", "n", "s", "t", "a", "l", "l", "e", "d", "_", "c", "a", "p", "a", "c", "i",
      "t", "y", "_", "m", "w">>

V_alpha_solar == <<"A", "l", "p", "h", "a", " ", "S", "o", "l", "a", "r">>
V_150_5 == <<"1", "5", "0", ".", "5">>
V_qld == <<"Q", "L", "D">>

\* Header lists of a fragment: the capacity column is the second one
CerHeaderLists ==
    {<<H_facility_name, H_installed_capacity, H_state>>,
     <<H_facility_name, H_installed_capacity_mw, H_state>>,
     <<H_facility_name, H_mw_capacity, H_state>>,
     <<H_facility_name, H_installed_capacity, H_postcode>>}

\* What the capacity cell holds
CapacityCells ==
    {CellStr(V_150_5), CellFloat(V_150_5), CellStr(<<" ">> \o V_150_5 \o <<" ">>),
     CellStr(<<"-">>), CellNone}

EmptyDatabase == [tables |-> {}, columns |-> [t \in AllTables |-> {}], issued |-> {}]

\* original_cols as positions of the frame, lines 953-985: the filters
\* compare the raw header
CerOriginalPositions(ty, headers) ==
    LET Kept(i) == /\ JoinChars(headers[i]) \notin SeqRange(GEOCODE_FIELDS)
                   /\ JoinChars(headers[i]) \notin CerSaveFilter(ty)
    IN  SelectSeq([i \in 1..Len(headers) |-> i], Kept)

\* clean_original_cols with the type of each, lines 988-1016
CerLoadColumns(ty, headers) ==
    LET kept == CerOriginalPositions(ty, headers)
    IN  CerCleanColumns([j \in 1..Len(kept) |->
                            JoinChars(normalize_db_column_name(headers[kept[j]]))],
                        1, {"id"})

\* row_data, lines 1053-1071: one value per column of all_columns
CerRowData(ty, headers, row) ==
    LET kept == CerOriginalPositions(ty, headers)
        clean == CerLoadColumns(ty, headers)
    IN  [j \in 1..(Len(clean) + Len(GEOCODE_FIELDS)) |->
            IF j <= Len(clean)
            THEN [column |-> clean[j][1],
                  value |-> IF /\ clean[j][1] \in {"accreditation_start_date", "approval_date"}
                               /\ ty # "approved_power_stations"
                            THEN to_date(row[kept[j]])
                            ELSE clean_value(row[kept[j]], varchar_max_lengths(clean[j][1]))]
            ELSE [column |-> GEOCODE_FIELDS[j - Len(clean)],
                  value |-> clean_value(CellNone, 0)]]

\* save_cer_data on a frame of one row that has no geocoding column, none
\* of the alias headers of lines 927-948, and no failing statement
SaveCerFragment ==
    /\ cerPc = "frame"
    /\ LET t == CerTable(cerType)
           D0 == IF table_exists(cerDb, t) THEN cerDb ELSE create_cer_tables_impl(cerDb)
           D1 == AddColumns(D0, t, CerLoadColumns(cerType, cerHeaders) \o GeocodeDefinitions, 1)
       IN  /\ cerDb' = EnsureGeometries(D1, t)
           /\ cerSent' = CerRowData(cerType, cerHeaders, cerRow)
    /\ cerPc' = "saved"
    /\ UNCHANGED <<cerType, cerHeaders, cerRow>>
    /\ UNCHANGED <<poolVars, loadVars, schemaVars, absVars, partVars, otherVars, detectVars, singletonVars, lastVars>>

CerInit ==
    /\ cerType \in CerTypes
    /\ cerHeaders \in CerHeaderLists
    /\ \E cell \in CapacityCells :
           cerRow = <<CellStr(V_alpha_solar), cell, CellStr(V_qld)>>
    /\ cerDb \in {EmptyDatabase, create_cer_tables_impl(EmptyDatabase)}
    /\ cerPc = "frame"
    /\ cerSent = <<>>

CerOff ==
    /\ cerType = "off"
    /\ cerHeaders = <<>>
    /\ cerRow = <<>>
    /\ cerDb = EmptyDatabase
    /\ cerPc = "off"
    /\ cerSent = <<>>


NextCer ==
    SaveCerFragment

(***************************************************************************)
(* Claims about the CER fragment                                           *)
(***************************************************************************)
NumericTypes == {"NUMERIC", "INTEGER", "DOUBLE PRECISION", "REAL", "FLOAT"}

SentFor(c) == {cerSent[j].value : j \in {i \in 1..Len(cerSent) : cerSent[i].column = c}}

\* C24: the fragment with the headers "Facility Name", "Installed Capacity
\* (MW)", "State" and the row "Alpha Solar", "150.5", "QLD" is loaded into
\* the columns facility_name, installed_capacity_mw and state; the column
\* installed_capacity_mw has a numeric type and the value sent for it is
\* the number 150.5, not the string.
C24_CapacitySentAsNumber ==
    (/\ cerPc = "saved"
     /\ cerHeaders = <<H_facility_name, H_installed_capacity, H_state>>
     /\ cerRow = <<CellStr(V_alpha_solar), CellStr(V_150_5), CellStr(V_qld)>>)
    => /\ {"facility_name", "installed_capacity_mw", "state"}
              \subseteq ColumnNames(cerDb, CerTable(cerType))
       /\ \E ty \in NumericTypes :
              <<"installed_capacity_mw", ty>> \in cerDb.columns[CerTable(cerType)]
       /\ SentFor("installed_capacity_mw") = {CellFloat(V_150_5)}

(***************************************************************************)
(* The pool singleton (database_utils.py get_connection_pool) with several *)
(* threads inside the function at once: the test without the lock, the     *)
(* lock, the test under the lock, the construction, the return.            *)
(***************************************************************************)
NPoolCallers == 3      \* threads that call get_connection_pool

PoolCallers == 1..NPoolCallers

NotCalled == [done |-> FALSE, pool |-> None]

Returned(p) == [done |-> TRUE, pool |-> p]

\* The test under the lock left out
SecondCheckSkipped(pool) == TRUE

\* line 57: "if _connection_pool is None" under _pool_lock
SecondCheck(pool) == pool = None

\* line 55: "if _connection_pool is None" without the lock
GpFirstCheck(t) ==
    /\ gpPc[t] = "idle"
    /\ gpPc' = [gpPc EXCEPT ![t] = IF connection_pool = None THEN "lock" ELSE "return"]
    /\ UNCHANGED <<pool_lock, gpRet, poolVars>>

\* line 56: "with _pool_lock" waits for the lock
GpLock(t) ==
    /\ gpPc[t] = "lock"
    /\ pool_lock = 0
    /\ pool_lock' = t
    /\ gpPc' = [gpPc EXCEPT ![t] = "locked"]
    /\ UNCHANGED <<gpRet, poolVars>>

\* lines 57-79 under the lock: the second test, the construction and the
\* PostGIS statement; "return None" when the constructor raises.  The lock
\* is released on the way out of the with block.
GpConstruct(t) ==
    /\ gpPc[t] = "locked"
    /\ pool_lock' = 0
    /\ IF SecondCheck(connection_pool)
       THEN \E how \in {"ok", "fail", "nopostgis"} :
               LET W1 == NewPool(World, how)
               IN  /\ SetWorld(W1)
                   /\ IF W1.made = poolsMade
                      THEN /\ gpRet' = [gpRet EXCEPT ![t] = Returned(None)]
                           /\ gpPc' = [gpPc EXCEPT ![t] = "idle"]
                      ELSE /\ gpPc' = [gpPc EXCEPT ![t] = "return"]
                           /\ UNCHANGED gpRet
       ELSE /\ gpPc' = [gpPc EXCEPT ![t] = "return"]
            /\ UNCHANGED <<gpRet, connection_pool, pool_idle, pool_used, connState,
                           poolsMade>>
    /\ UNCHANGED <<active_connections, callerPc, callerConn, callerLog, shutdown, last>>

\* line 81: return _connection_pool
GpReturn(t) ==
    /\ gpPc[t] = "return"
    /\ gpRet' = [gpRet EXCEPT ![t] = Returned(connection_pool)]
    /\ gpPc' = [gpPc EXCEPT ![t] = "idle"]
    /\ UNCHANGED <<pool_lock, poolVars>>

SingletonInit ==
    /\ pool_lock = 0
    /\ gpPc = [t \in PoolCallers |-> "idle"]
    /\ gpRet = [t \in PoolCallers |-> NotCalled]

SingletonOff ==
    /\ pool_lock = 0
    /\ gpPc = <<>>
    /\ gpRet = <<>>

NextSingleton ==
    \/ \E t \in PoolCallers : GpFirstCheck(t) /\ UNCHANGED <<loadVars, schemaVars, absVars, partVars, otherVars, detectVars, cerVars, lastVars>>
    \/ \E t \in PoolCallers : GpLock(t) /\ UNCHANGED <<loadVars, schemaVars, absVars, partVars, otherVars, detectVars, cerVars, lastVars>>
    \/ \E t \in PoolCallers : GpConstruct(t) /\ UNCHANGED <<loadVars, schemaVars, absVars, partVars, otherVars, detectVars, cerVars, lastVars>>
    \/ \E t \in PoolCallers : GpReturn(t) /\ UNCHANGED <<loadVars, schemaVars, absVars, partVars, otherVars, detectVars, cerVars, lastVars>>

(***************************************************************************)
(* Claims about the pool singleton                                         *)
(***************************************************************************)
\* C29: under any interleaving of concurrent first calls of
\* get_connection_pool without a shutdown, exactly one pool object is
\* constructed and every caller receives that same pool.
C29_OnePoolForEveryCaller ==
    \A t \in PoolCallers :
        gpRet[t].done => (poolsMade = 1 /\ gpRet[t].pool = 1)

\* C29 as the code has it: at most one pool object is constructed, a caller
\* receives that pool or, when its own construction failed, None, and a
\* pool once constructed is what every later call returns.
C29_AtMostOnePoolOrNone ==
    /\ poolsMade <= 1
    /\ connection_pool = poolsMade
    /\ \A t \in PoolCallers :
           (gpRet[t].done /\ gpRet[t].pool # None) => gpRet[t].pool = connection_pool
    /\ \A t \in PoolCallers : gpPc[t] = "return" => connection_pool # None

\* C29 witness: two threads passed the unlocked test while no pool existed,
\* one constructed the pool, and both have received it.
C29_Witness ==
    \E t \in PoolCallers : \E u \in PoolCallers \ {t} :
        /\ gpRet[t] = Returned(1) /\ gpRet[u] = Returned(1)
        /\ gpPc[t] = "idle" /\ gpPc[u] = "idle"
        /\ \E v \in PoolCallers \ {t, u} : gpPc[v] = "locked"
        /\ poolsMade = 1

(***************************************************************************)
(* batch_insert (database_utils.py 566-579).  The rows of data are named   *)
(* by their position, so a slice is the interval of positions it holds and *)
(* the sizes of the program (10000 rows a chunk, 1000 rows a statement)    *)
(* are kept.                                                               *)
(***************************************************************************)
DefaultBatchSize == 10000    \* batch_size: int = 10000
PageLimit == 1000            \* page_size=min(1000, batch_size)
MaxSmallData == 7            \* rows of the fragments loaded with small batch sizes

BatchInputs ==
    {[data |-> n, batch_size |-> b] : n \in 0..MaxSmallData, b \in 1..3}
    \cup {[data |-> n, batch_size |-> b] :
             n \in {0, 1, 999, 1000, 1001, 9999, 10000, 10001, 20000, 25001},
             b \in {PageLimit, 1001, DefaultBatchSize}}

Min(a, b) == IF a <= b THEN a ELSE b

\* data[i:i + size] also takes the row after the slice
SliceInclusive(n, i, size) == <<i + 1, Min(i + size + 1, n)>>

\* data[i:j] of a list of n rows, i <= n: the rows at 0-based i..min(j, n)-1,
\* that is the positions i+1..min(j, n)
Slice(n, i, size) == <<i + 1, Min(i + size, n)>>

RowsIn(c) == c[2] - c[1] + 1

\* execute_values(cursor, sql, chunk, page_size): one statement for every
\* page_size rows of the chunk, in order
RECURSIVE Pages(_, _)
Pages(c, page_size) ==
    IF RowsIn(c) <= 0 THEN <<>>
    ELSE <<<<c[1], Min(c[1] + page_size - 1, c[2])>>>>
         \o Pages(<<c[1] + page_size, c[2]>>, page_size)

\* "if not data: return", and the range of the loop is empty for no rows
BatchCall ==
    /\ biPc = "call"
    /\ biI' = 0
    /\ biPc' = IF biData = 0 THEN "done" ELSE "loop"
    /\ UNCHANGED <<biData, biBatchSize, biChunks, biStatements>>

\* One turn of "for i in range(0, len(data), batch_size)": the slice and
\* execute_values.  An exception of execute_values leaves batch_insert; the
\* statements of the chunk sent before it stay sent.
BatchChunk ==
    /\ biPc = "loop"
    /\ LET chunk == Slice(biData, biI, biBatchSize)
           pages == Pages(chunk, Min(PageLimit, biBatchSize))
       IN  \E sent \in 0..Len(pages) :
              /\ sent = Len(pages) \/ sent < 2
              /\ biChunks' = Append(biChunks, chunk)
              /\ biStatements' = biStatements \o SubSeq(pages, 1, sent)
              /\ IF sent < Len(pages)
                 THEN biPc' = "raised" /\ biI' = biI
                 ELSE /\ biI' = biI + biBatchSize
                      /\ biPc' = IF biI + biBatchSize < biData THEN "loop" ELSE "done"
    /\ UNCHANGED <<biData, biBatchSize>>

BatchInit ==
    /\ \E in \in BatchInputs : biData = in.data /\ biBatchSize = in.batch_size
    /\ biI = 0
    /\ biChunks = <<>>
    /\ biStatements = <<>>
    /\ biPc = "call"

BatchOff ==
    /\ biData = 0
    /\ biBatchSize = 0
    /\ biI = 0
    /\ biChunks = <<>>
    /\ biStatements = <<>>
    /\ biPc = "off"

NextBatch ==
    \/ BatchCall /\ UNCHANGED <<exceptLast, rowVars, threadVars>>
    \/ BatchChunk /\ UNCHANGED <<exceptLast, rowVars, threadVars>>

\* A sequence of intervals goes through the rows 1, 2, ... in order with no
\* gap and no repetition, each interval of 1..size rows.
Consecutive(intervals, size) ==
    \A k \in 1..Len(intervals) :
        /\ intervals[k][1] = (IF k = 1 THEN 1 ELSE intervals[k - 1][2] + 1)
        /\ RowsIn(intervals[k]) \in 1..size

LastRow(intervals) == IF intervals = <<>> THEN 0 ELSE intervals[Len(intervals)][2]

\* C31: batch_insert sends every row of the fragment exactly once, in the
\* original order, in consecutive chunks of at most batch_size rows, and an
\* empty fragment issues no insert.
C31_EveryRowOnceInOrder ==
    /\ Consecutive(biChunks, biBatchSize)
    /\ Consecutive(biStatements, biBatchSize)
    /\ LastRow(biChunks) <= biData
    /\ biPc = "done" =>
           (LastRow(biChunks) = biData /\ LastRow(biStatements) = biData)
    /\ biData = 0 => (biChunks = <<>> /\ biStatements = <<>>)

\* C31 witness: a fragment of more rows than one chunk, the last chunk
\* shorter than the others, sent whole.
C31_Witness ==
    /\ biPc = "done"
    /\ biData = 25001 /\ biBatchSize = DefaultBatchSize
    /\ Len(biChunks) = 3 /\ Len(biStatements) = 26

(***************************************************************************)
(* The row tuples and the INSERT column list of save_nger_data,            *)
(* save_cer_data and insert_abs_data_cleaned.  An element of the tuple is  *)
(* modelled by where its value was taken from: a column of the frame, an   *)
(* argument of the function, or nothing (None).                            *)
(***************************************************************************)
FromColumn(c) == [kind |-> "column", name |-> c]
FromArgument(a) == [kind |-> "argument", name |-> a]
FromNothing == [kind |-> "None", name |-> ""]

\* row.get(col) if col in df.columns else None, and row.get(field)
RowGet(present, c) == IF c \in present THEN FromColumn(c) ELSE FromNothing

\* save_nger_data, line 678
NgerBasicColumns == <<"facilityname", "state", "primaryfuel", "reportingentity">>

\* The keys of mappings in the order of the dict, lines 607-618
NgerMappingTargets ==
    <<"facility_type", "electricity_production_gj", "electricity_production_mwh",
      "emission_intensity_tco2e_mwh", "scope1_emissions_tco2e", "scope2_emissions_tco2e",
      "total_emissions_tco2e", "grid_info", "grid_connected", "important_notes">>

\* mappings[target_col], lines 607-618
NgerMappings(target_col) ==
    CASE target_col = "facility_type" -> <<"type">>
      [] target_col = "electricity_production_gj" -> <<"electricityproductiongj">>
      [] target_col = "electricity_production_mwh" -> <<"electricityproductionmwh">>
      [] target_col = "emission_intensity_tco2e_mwh" ->
            <<"emissionintensitytco2emwh", "emissionintensitytmwh">>
      [] target_col = "scope1_emissions_tco2e" ->
            <<"scope1tco2e", "totalscope1emissionstco2e">>
      [] target_col = "scope2_emissions_tco2e" ->
            <<"scope2tco2e", "totalscope2emissionstco2e", "totalscope2emissionstco2e2">>
      [] target_col = "total_emissions_tco2e" -> <<"totalemissionstco2e">>
      [] target_col = "grid_info" -> <<"grid">>
      [] target_col = "grid_connected" -> <<"gridconnected", "gridconnected2">>
      [] target_col = "important_notes" -> <<"importantnotes">>
      [] OTHER -> <<>>

\* column_name_mapping, lines 621-625
NgerColumnNameMapping(c) ==
    CASE c = "facilityname" -> "facility_name"
      [] c = "primaryfuel" -> "primary_fuel"
      [] c = "reportingentity" -> "reporting_entity"
      [] OTHER -> c

\* cols, lines 716-719
NgerInsertColumns ==
    <<"year_label", "start_year", "stop_year", "facility_name", "state", "primary_fuel",
      "reporting_entity", "facility_type", "electricity_production_gj",
      "electricity_production_mwh", "emission_intensity_tco2e_mwh",
      "scope1_emissions_tco2e", "scope2_emissions_tco2e", "total_emissions_tco2e",
      "grid_info", "grid_connected", "important_notes">> \o GEOCODE_FIELDS

\* The loop of lines 686-702: the first source column that is in the frame
\* and holds a valid value
RECURSIVE FirstValidSource(_, _, _, _)
FirstValidSource(source_cols, k, present, valid) ==
    IF k > Len(source_cols) THEN FromNothing
    ELSE IF source_cols[k] \in present /\ source_cols[k] \in valid
         THEN FromColumn(source_cols[k])
         ELSE FirstValidSource(source_cols, k + 1, present, valid)

\* The mapping loop with the order of the targets reversed
NgerMappedReversed(present, valid) ==
    [k \in 1..Len(NgerMappingTargets) |->
        FirstValidSource(NgerMappings(NgerMappingTargets[Len(NgerMappingTargets) + 1 - k]),
                         1, present, valid)]

\* "for target_col, source_cols in mappings.items()", lines 685-702
NgerMapped(present, valid) ==
    [k \in 1..Len(NgerMappingTargets) |->
        FirstValidSource(NgerMappings(NgerMappingTargets[k]), 1, present, valid)]

\* row_data of save_nger_data, lines 668-714
NgerRowData(present, valid) ==
    <<FromArgument("year_label"), RowGet(present, "start_year"), RowGet(present, "stop_year")>>
    \o [k \in 1..Len(NgerBasicColumns) |-> RowGet(present, NgerBasicColumns[k])]
    \o NgerMapped(present, valid)
    \o [k \in 1..Len(GEOCODE_FIELDS) |-> RowGet(present, GEOCODE_FIELDS[k])]

\* The columns of the NGER frames of the model
NgerFrameColumns ==
    {"start_year", "facilityname", "state", "type", "scope1tco2e",
     "totalscope1emissionstco2e", "gridconnected2", "lat"}

SaveNgerRows ==
    /\ rwPc = "frame" /\ rwKind = "nger"
    /\ rwTuple' = NgerRowData(rwColumns, rwValid)
    /\ rwInsert' = NgerInsertColumns
    /\ rwPc' = "built"
    /\ UNCHANGED <<rwKind, rwColumns, rwValid, rwOption>>

\* A label that occurs twice in df.columns: row.get(col) and row[col] give
\* a Series, and pd.isna of it in a condition raises
HasDuplicate(q) == \E i, j \in 1..Len(q) : i # j /\ q[i] = q[j]

\* original_to_clean, line 1005, as the dict it is: the last clean name
\* stored under a raw name
OriginalToClean(raw, clean, c) ==
    LET at == {j \in 1..Len(raw) : raw[j] = c}
    IN  clean[CHOOSE j \in at : \A k \in at : k <= j]

\* save_cer_data, lines 955-1075, on frame columns given as characters
SaveCerRows ==
    /\ rwPc = "frame" /\ rwKind = "cer"
    /\ IF HasDuplicate(rwColumns)
       THEN /\ rwPc' = "raised"
            /\ UNCHANGED <<rwTuple, rwInsert>>
       ELSE LET kept == CerOriginalPositions(rwOption, rwColumns)
                clean == CerLoadColumns(rwOption, rwColumns)
                present == {JoinChars(rwColumns[i]) : i \in 1..Len(rwColumns)}
            IN  /\ rwTuple' = [j \in 1..Len(kept) |-> FromColumn(JoinChars(rwColumns[kept[j]]))]
                               \o [k \in 1..Len(GEOCODE_FIELDS) |->
                                      RowGet(present, GEOCODE_FIELDS[k])]
                /\ rwInsert' = [j \in 1..Len(clean) |-> clean[j][1]] \o GEOCODE_FIELDS
                /\ rwPc' = "built"
    /\ UNCHANGED <<rwKind, rwColumns, rwValid, rwOption>>

\* insert_abs_data_cleaned, lines 1132-1201; rwOption: geo_level is given
InsertAbsRows ==
    /\ rwPc = "frame" /\ rwKind = "abs"
    /\ IF HasDuplicate(rwColumns)
       THEN /\ rwPc' = "raised"
            /\ UNCHANGED <<rwTuple, rwInsert>>
       ELSE LET cols == normalize_column_mapping(rwColumns)
            IN  /\ rwTuple' = [j \in 1..Len(rwColumns) |-> FromColumn(rwColumns[j])]
                               \o (IF rwOption THEN <<FromArgument("geo_level")>> ELSE <<>>)
                /\ rwInsert' = [j \in 1..Len(cols) |-> JoinChars(cols[j])]
                               \o (IF rwOption THEN <<"geographic_level">> ELSE <<>>)
                /\ rwPc' = "built"
    /\ UNCHANGED <<rwKind, rwColumns, rwValid, rwOption>>

H_lat == <<"l", "a", "t">>
H_Lat == <<"L", "a", "t">>
H_place_id == <<"P", "l", "a", "c", "e", " ", "I", "D">>

CerRowHeaders == {H_facility_name, H_installed_capacity, H_state, H_postcode, H_lat, H_Lat,
                  H_place_id}

MaxRowHeaders == 3     \* columns of a CER frame

RowsInit ==
    /\ \/ /\ rwKind = "nger"
          /\ rwColumns \in SUBSET NgerFrameColumns
          /\ rwValid \in SUBSET rwColumns
          /\ rwOption = FALSE
       \/ /\ rwKind = "cer"
          /\ rwColumns \in UNION {[1..n -> CerRowHeaders] : n \in 0..MaxRowHeaders}
          /\ rwValid = {}
          /\ rwOption \in CerTypes
       \/ /\ rwKind = "abs"
          /\ rwColumns \in HeaderLists
          /\ rwValid = {}
          /\ rwOption \in BOOLEAN
    /\ rwTuple = <<>>
    /\ rwInsert = <<>>
    /\ rwPc = "frame"

RowsOff ==
    /\ rwKind = "off"
    /\ rwColumns = <<>>
    /\ rwValid = {}
    /\ rwOption = FALSE
    /\ rwTuple = <<>>
    /\ rwInsert = <<>>
    /\ rwPc = "off"

NextRows ==
    \/ SaveNgerRows /\ UNCHANGED <<exceptLast, batchVars, threadVars>>
    \/ SaveCerRows /\ UNCHANGED <<exceptLast, batchVars, threadVars>>
    \/ InsertAbsRows /\ UNCHANGED <<exceptLast, batchVars, threadVars>>

\* The source columns the code maps to a column name of the INSERT list
NgerSourcesOf(c) ==
    SeqRange(NgerMappings(c))
    \cup {b \in SeqRange(NgerBasicColumns) : NgerColumnNameMapping(b) = c}
    \cup (IF c \in SeqRange(GEOCODE_FIELDS) \cup {"start_year", "stop_year"} THEN {c} ELSE {})

\* The element at position i comes from the source mapped to rwInsert[i]
Aligned(i) ==
    LET e == rwTuple[i]
        c == rwInsert[i]
    IN  CASE rwKind = "nger" ->
                \/ e.kind = "None" /\ c # "year_label"
                \/ e.kind = "argument" /\ c = "year_label" /\ e.name = "year_label"
                \/ e.kind = "column" /\ e.name \in NgerSourcesOf(c)
          [] rwKind = "cer" ->
                IF c \in SeqRange(GEOCODE_FIELDS) /\ i > Len(rwTuple) - Len(GEOCODE_FIELDS)
                THEN e.kind = "None" \/ (e.kind = "column" /\ e.name = c)
                ELSE /\ e.kind = "column"
                     /\ LET kept == CerOriginalPositions(rwOption, rwColumns)
                            raw == [j \in 1..Len(kept) |-> JoinChars(rwColumns[kept[j]])]
                        IN  /\ e.name \in SeqRange(raw)
                            /\ c = OriginalToClean(raw, rwInsert, e.name)
          [] rwKind = "abs" ->
                IF e.kind = "argument" THEN c = "geographic_level" /\ i = Len(rwTuple)
                ELSE /\ e.kind = "column"
                     /\ e.name \in SeqRange(rwColumns)
                     /\ c = OriginalToClean(rwColumns, rwInsert, e.name)
          [] OTHER -> FALSE

\* C32: every row tuple has as many elements as the INSERT column list, and
\* the element at position i is the value derived from the source column
\* mapped to the column name at position i.
C32_TupleAlignedWithColumns ==
    rwPc = "built" =>
        /\ Len(rwTuple) = Len(rwInsert)
        /\ \A i \in 1..Len(rwTuple) : Aligned(i)

\* C32 witness: an NGER row whose scope 1 value comes from the second
\* source column of the mapping because the first holds no valid value.
C32_Witness ==
    /\ rwPc = "built" /\ rwKind = "nger"
    /\ rwTuple[12] = FromColumn("totalscope1emissionstco2e")
    /\ rwInsert[12] = "scope1_emissions_tco2e"
    /\ "scope1tco2e" \in rwColumns

\* C32 witness for the frames with free headers: an ABS frame of three
\* columns of one normalized form with its level.
C32_WitnessAbs ==
    /\ rwPc = "built" /\ rwKind = "abs" /\ rwOption
    /\ Len(rwTuple) = 4
    /\ rwInsert[3] = "cost_1_1"

\* C33: the INSERT column list built by save_cer_data contains no name
\* twice, also when a source column normalizes to the name of a geocode
\* companion column.
C33_CerInsertColumnsDistinct ==
    (rwPc = "built" /\ rwKind = "cer") => ~HasDuplicate(rwInsert)

(***************************************************************************)
(* The geocoding of a frame by a thread pool (geocoding.py 190-364): one   *)
(* task a row, the results collected as the threads complete, the frame    *)
(* updated from the collected list.                                        *)
(***************************************************************************)
MaxGeoRows == 3        \* rows of the frame that is geocoded

\* The labels of a frame: a RangeIndex, or what is left of one after rows
\* were dropped (drop_duplicates keeps the labels)
GeoIndexes == {<<>>, <<0>>, <<0, 1>>, <<0, 1, 2>>, <<0, 2, 5>>, <<1, 2>>, <<2, 4, 5>>}

NullColumns == [filled |-> FALSE, row |-> 0]

\* The geocode columns computed from the row with the label idx
ResultOf(idx) == [filled |-> TRUE, row |-> idx]

NotRun == [idx |-> 0, success |-> FALSE, result |-> NullColumns, has_result |-> FALSE]

\* What geocode_single_station / geocode_single_nger return for the task
\* (idx, row): a located row, a row no query located (lat is None), or the
\* dict of the except branch with 'result': None
ThreadReturns(idx) ==
    {[idx |-> idx, success |-> TRUE, result |-> ResultOf(idx), has_result |-> TRUE],
     [idx |-> idx, success |-> FALSE, result |-> NullColumns, has_result |-> TRUE],
     [idx |-> idx, success |-> FALSE, result |-> NullColumns, has_result |-> FALSE]}

Labels == SeqRange(gtIndex)

\* The executor starts a queued task when a worker thread is free
GtStart(idx) ==
    /\ gtPc = "threads"
    /\ gtTask[idx] = "queued"
    /\ Cardinality({j \in Labels : gtTask[j] = "running"}) < gtWorkers
    /\ gtTask' = [gtTask EXCEPT ![idx] = "running"]
    /\ UNCHANGED <<gtIndex, gtWorkers, gtOutcome, gtResults, gtFrame, gtPc>>

\* The thread function returns
GtFinish(idx) ==
    /\ gtPc = "threads"
    /\ gtTask[idx] = "running"
    /\ \E r \in ThreadReturns(idx) : gtOutcome' = [gtOutcome EXCEPT ![idx] = r]
    /\ gtTask' = [gtTask EXCEPT ![idx] = "finished"]
    /\ UNCHANGED <<gtIndex, gtWorkers, gtResults, gtFrame, gtPc>>

\* "for future in as_completed(future_to_idx)": a finished future is
\* yielded and its result appended; after the last one the with block ends
GtCollect(idx) ==
    /\ gtPc = "threads"
    /\ gtTask[idx] = "finished"
    /\ gtResults' = Append(gtResults, gtOutcome[idx])
    /\ gtTask' = [gtTask EXCEPT ![idx] = "collected"]
    /\ gtPc' = IF \A j \in Labels \ {idx} : gtTask[j] = "collected" THEN "update"
               ELSE "threads"
    /\ UNCHANGED <<gtIndex, gtWorkers, gtOutcome, gtFrame>>

\* The k-th result is written to the k-th row of the frame
RowOfResultByPosition(collected, k) == gtIndex[k]

\* idx = result['idx'], the label df.at writes to
RowOfResult(collected, k) == collected[k].idx

\* update_dataframe_with_results, lines 230-245
RECURSIVE UpdateFrom(_, _, _)
UpdateFrom(frame, collected, k) ==
    IF k > Len(collected) THEN frame
    ELSE IF collected[k].success /\ collected[k].has_result
         THEN UpdateFrom([frame EXCEPT ![RowOfResult(collected, k)] = collected[k].result],
                         collected, k + 1)
         ELSE UpdateFrom(frame, collected, k + 1)

\* The update of the frame and the return; a frame with no row has no task
GtUpdate ==
    /\ gtPc = "update"
    /\ gtFrame' = UpdateFrom(gtFrame, gtResults, 1)
    /\ gtPc' = "returned"
    /\ UNCHANGED <<gtIndex, gtWorkers, gtTask, gtOutcome, gtResults>>

\* initialize_geocode_columns and the submission of the tasks
ThreadsInit ==
    /\ gtIndex \in GeoIndexes
    /\ gtWorkers \in 1..MaxGeoRows
    /\ gtTask = [i \in SeqRange(gtIndex) |-> "queued"]
    /\ gtOutcome = [i \in SeqRange(gtIndex) |-> NotRun]
    /\ gtResults = <<>>
    /\ gtFrame = [i \in SeqRange(gtIndex) |-> NullColumns]
    /\ gtPc = IF gtIndex = <<>> THEN "update" ELSE "threads"

ThreadsOff ==
    /\ gtIndex = <<>>
    /\ gtWorkers = 0
    /\ gtTask = <<>>
    /\ gtOutcome = <<>>
    /\ gtResults = <<>>
    /\ gtFrame = <<>>
    /\ gtPc = "off"

NextThreads ==
    \/ \E idx \in Labels : GtStart(idx) /\ UNCHANGED <<exceptLast, batchVars, rowVars>>
    \/ \E idx \in Labels : GtFinish(idx) /\ UNCHANGED <<exceptLast, batchVars, rowVars>>
    \/ \E idx \in Labels : GtCollect(idx) /\ UNCHANGED <<exceptLast, batchVars, rowVars>>
    \/ GtUpdate /\ UNCHANGED <<exceptLast, batchVars, rowVars>>

\* C34: whatever order the threads complete in, after the call row i holds
\* the result computed for row i when its task succeeded and null geocode
\* columns when it failed; no row receives another row's result.
C34_RowHoldsItsOwnResult ==
    gtPc = "returned" =>
        \A i \in Labels :
            gtFrame[i] = IF gtOutcome[i].success THEN ResultOf(i) ELSE NullColumns

\* C34 witness: three rows, the results collected in another order than
\* the rows, one task failed, the frame returned.
C34_Witness ==
    /\ gtPc = "returned"
    /\ gtIndex = <<0, 2, 5>>
    /\ gtResults[1].idx = 5 /\ gtResults[2].idx = 0 /\ gtResults[3].idx = 2
    /\ gtOutcome[5].success /\ gtOutcome[0].success /\ ~gtOutcome[2].success

(***************************************************************************)
(* Claims that compare the loader with the cleaner                         *)
(***************************************************************************)
\* The value of the cleaner's model as a cell of the loader's
AsCell(value) == IF value = PyNone THEN CellNone ELSE CellStr(value)

\* C35: the loader's missing-value test agrees with the coercer's on every
\* value: is_valid_value(v) is false exactly when is_missing_value(v) is
\* true, for every sentinel in any letter case, "N/A" included.
C35_LoaderAgreesWithCoercer ==
    numResult.kind # "pending" =>
        (is_valid_value(AsCell(numValue)) <=> ~is_missing_value(numValue))

\* C36: normalize_db_column_name is idempotent: normalizing a normalized
\* name again returns it unchanged, also for a header longer than 60
\* characters whose truncated name ends in an underscore.
C36_NormalizeIsIdempotent ==
    namePc \in {"named", "mapped"} =>
        \A i \in 1..Len(normalizedNames) :
            normalize_db_column_name(normalizedNames[i]) = normalizedNames[i]

(***************************************************************************)
(* Claims about the integer target of clean_numeric_value                  *)
(***************************************************************************)
\* The text after the separators and the white space are removed
IntegerText(value) == RemoveChars(Strip(value, SpaceChars), {","} \cup SpaceChars)

\* A sign, digits, and at most one point among them
PlainDecimal(t) ==
    LET u == Unsigned(t)
    IN  /\ CountChar(u, ".") <= 1
        /\ u # <<>> /\ u # <<".">>
        /\ \A i \in 1..Len(u) : u[i] \in DigitChars \cup {"."}

IntegerDigits(t) == SubSeq(Unsigned(t), 1, IndexOf(Unsigned(t), ".") - 1)

\* Significant digits of a plain decimal: its digits but the leading zeros
RECURSIVE DropZeros(_)
DropZeros(d) == IF d # <<>> /\ d[1] = "0" THEN DropZeros(Tail(d)) ELSE d

SignificantDigits(t) == Len(DropZeros(RemoveChars(Unsigned(t), {"."})))

\* The truncation toward zero of the decimal t as the float returned
DecimalTruncation(t) ==
    LET n == DigitsValue(IntegerDigits(t))
    IN  [kind |-> "number",
         value |-> [kind |-> "finite", neg |-> HasMinus(t) /\ n # 0, num |-> n, exp10 |-> 0]]

IntegerCleaned ==
    /\ numTarget = "integer"
    /\ numResult.kind \notin {"off", "pending"}
    /\ numValue # PyNone
    /\ ~is_missing_value(numValue)
    /\ PlainDecimal(IntegerText(numValue))

\* C38: with the target type integer, clean_numeric_value removes the
\* thousands separators and the white space, parses the rest as a decimal
\* number and returns its truncation toward zero.
C38_IntegerIsTruncatedDecimal ==
    IntegerCleaned => numResult = DecimalTruncation(IntegerText(numValue))

\* C38 with the parse as it is done: the rest is parsed as a double; for a
\* decimal of at most 15 significant digits the result is the truncation
\* toward zero of the decimal, and a longer decimal is first rounded to the
\* nearest double, so that 0.99999999999999999 gives 1 and not 0.
C38_IntegerIsTruncatedDouble ==
    IntegerCleaned =>
        /\ SignificantDigits(IntegerText(numValue)) <= DoubleDigits
              => numResult = DecimalTruncation(IntegerText(numValue))
        /\ IntegerText(numValue) = V_nines
              => numResult = DecimalTruncation(<<"1">>)
        /\ IntegerText(numValue) = <<"-">> \o V_nines
              => numResult = DecimalTruncation(<<"-", "1">>)

\* C38 witness: "-3.7" was cleaned to -3.
C38_Witness ==
    /\ numTarget = "integer"
    /\ numValue = <<"-", "3", ".", "7">>
    /\ numResult = DecimalTruncation(<<"-", "3">>)

(***************************************************************************)
(* Claims about the float and integer types of the detection               *)
(***************************************************************************)
HasPoint(r) == "." \in SeqRange(RemoveChars(r.value, {","} \cup SpaceChars))

\* C37: a column classified as numeric is float if any of the scored
\* sample values contains a decimal point, wherever in the sample that
\* value is, and integer only if none does.
C37_FloatIfAnyScoredHasPoint ==
    (Detected /\ detResult \in {"integer", "float"}) =>
        (detResult = "float" <=>
            \E i \in 1..Len(ScoredValues(detColumn)) : HasPoint(ScoredValues(detColumn)[i]))

(***************************************************************************)
(* Claims about the return value of a dataset                              *)
(***************************************************************************)
\* C39: a dataset whose partitions all failed is reported as failed:
\* fetch_nger_data and process_abs_data both return False when no partition
\* result has success = true.
C39_AllFailedReturnsFalse ==
    (fetchReturn # "none" /\ Successes = {}) => fetchReturn = "False"

LastOff == BatchOff /\ RowsOff /\ ThreadsOff

LaterOff == DetectOff /\ CerOff /\ SingletonOff /\ LastOff

(***************************************************************************)
(* Specifications: each runs one part of the program, the others at rest.  *)
(***************************************************************************)
InitPool == PoolInit /\ LoadOff /\ SchemaOff /\ AbsOff /\ PartOff /\ GeoOff /\ NamesOff /\ NumOff /\ LaterOff
SpecPool == InitPool /\ [][NextPool]_vars

InitLoad == PoolOff /\ LoadInit /\ SchemaOff /\ AbsOff /\ PartOff /\ GeoOff /\ NamesOff /\ NumOff /\ LaterOff
SpecLoad == InitLoad /\ [][NextLoad]_vars

InitSchema == PoolOff /\ LoadOff /\ SchemaInit /\ AbsOff /\ PartOff /\ GeoOff /\ NamesOff /\ NumOff /\ LaterOff
SpecSchema == InitSchema /\ [][NextSchema]_vars

InitAbs == PoolOff /\ LoadOff /\ SchemaOff /\ AbsInit /\ PartOff /\ GeoOff /\ NamesOff /\ NumOff /\ LaterOff
SpecAbs == InitAbs /\ [][NextAbs]_vars

InitPart == PoolOff /\ LoadOff /\ SchemaOff /\ AbsOff /\ PartInit /\ GeoOff /\ NamesOff /\ NumOff /\ LaterOff
SpecPart == InitPart /\ [][NextPart]_vars

InitWork == PoolInit /\ LoadOff /\ SchemaOff /\ AbsOff /\ PartOff /\ GeoOff /\ NamesOff /\ NumOff /\ LaterOff
SpecWork == InitWork /\ [][NextWork]_vars

InitGeo == PoolOff /\ LoadOff /\ SchemaOff /\ AbsOff /\ PartOff /\ GeoInit /\ NamesOff /\ NumOff /\ LaterOff
SpecGeo == InitGeo /\ [][NextGeo]_vars

InitNames == PoolOff /\ LoadOff /\ SchemaOff /\ AbsOff /\ PartOff /\ GeoOff /\ NamesInit /\ NumOff /\ LaterOff
SpecNames == InitNames /\ [][NextNames]_vars

InitNum == PoolOff /\ LoadOff /\ SchemaOff /\ AbsOff /\ PartOff /\ GeoOff /\ NamesOff /\ NumInit /\ LaterOff
SpecNum == InitNum /\ [][NextNum]_vars

InitDetect == PoolOff /\ LoadOff /\ SchemaOff /\ AbsOff /\ PartOff /\ GeoOff /\ NamesOff /\ NumOff /\ DetectInit /\ CerOff /\ SingletonOff /\ LastOff
SpecDetect == InitDetect /\ [][NextDetect]_vars

InitCer == PoolOff /\ LoadOff /\ SchemaOff /\ AbsOff /\ PartOff /\ GeoOff /\ NamesOff /\ NumOff /\ DetectOff /\ CerInit /\ SingletonOff /\ LastOff
SpecCer == InitCer /\ [][NextCer]_vars

InitSingleton == PoolInit /\ LoadOff /\ SchemaOff /\ AbsOff /\ PartOff /\ GeoOff /\ NamesOff /\ NumOff /\ DetectOff /\ CerOff /\ SingletonInit /\ LastOff
SpecSingleton == InitSingleton /\ [][NextSingleton]_vars

InitBatch == PoolOff /\ LoadOff /\ SchemaOff /\ AbsOff /\ PartOff /\ GeoOff /\ NamesOff /\ NumOff /\ DetectOff /\ CerOff /\ SingletonOff /\ BatchInit /\ RowsOff /\ ThreadsOff
SpecBatch == InitBatch /\ [][NextBatch]_vars

InitRows == PoolOff /\ LoadOff /\ SchemaOff /\ AbsOff /\ PartOff /\ GeoOff /\ NamesOff /\ NumOff /\ DetectOff /\ CerOff /\ SingletonOff /\ BatchOff /\ RowsInit /\ ThreadsOff
SpecRows == InitRows /\ [][NextRows]_vars

InitThreads == PoolOff /\ LoadOff /\ SchemaOff /\ AbsOff /\ PartOff /\ GeoOff /\ NamesOff /\ NumOff /\ DetectOff /\ CerOff /\ SingletonOff /\ BatchOff /\ RowsOff /\ ThreadsInit
SpecThreads == InitThreads /\ [][NextThreads]_vars

====
